---------------------------- MODULE Spec2Model ----------------------------
(***************************************************************************)
(* react-chess: the move search (ChessAI), the provider layer (adapters,   *)
(* LocalProvider, RemoteProvider), the backend selector (BackendContext)   *)
(* and the game session (useChessBackendGame + the AI effect of App).      *)
(*                                                                         *)
(* The module holds one specification per subsystem:                       *)
(*   SpecAI        ChessAI.computeBestMove over the rules engine           *)
(*   SpecNorm      the adapters that normalise a backend's game state      *)
(*   SpecProvider  LocalProvider and RemoteProvider operations             *)
(*   SpecRegistry  LocalProvider's game store, registerEngine included     *)
(*   SpecRequest   RemoteProvider's request() on any answer of a backend   *)
(*   SpecUrl       the request each RemoteProvider method sends            *)
(*   SpecSelector  BackendProvider: switching backends, health checks      *)
(*   SpecPersist   BackendProvider over localStorage and restarts          *)
(*   SpecGame      useChessBackendGame over the rules engine, local mode:  *)
(*                 moves, promotions, undo, navigation, the AI's move      *)
(*   SpecSession   useChessBackendGame and App: moves, new games, backend   *)
(*                 switches, provider answers, the AI's delayed move       *)
(***************************************************************************)
EXTENDS Integers, Sequences, FiniteSets, TLC

VARIABLES
  engine,     \* the ChessEngine instance handed to ChessAI: position + history
  aiOut,      \* what the last computeBestMove call returned and did
  norm,       \* the last raw game state normalised, by which adapter, and
              \* the NormGameState that came out
  local,      \* a LocalProvider: its game store and the module's id counter
  remote,     \* a RemoteProvider: its backend and the fetch calls made
  call,       \* the last provider call: what was asked and how it settled
  sel,        \* the backend selector (BackendProvider): active backend, URL
              \* overrides, connection state, health checks in flight
  app         \* the game session (useChessBackendGame and the AI effect of
              \* App): engine position, remote game id, requests, AI think

aiVars == <<engine, aiOut>>
normVars == <<norm>>
provVars == <<local, remote, call>>
uiVars == <<sel, app>>
vars == <<engine, aiOut, norm, local, remote, call, sel, app>>

(***************************************************************************)
(* Bounds of the model                                                     *)
(***************************************************************************)
\* Height of the game trees the rules engine is positioned on.
MaxHeight == 2
\* Height of the ladder-shaped game trees.
MaxLadder == 4
\* Games a LocalProvider creates, fetch calls a RemoteProvider makes.
MaxLocalGames == 1
MaxFetch == 3
\* Provider instances the selector builds, health checks in flight at once.
MaxInst == 3
MaxHealth == 2
\* Plies of a session's game, provider requests a session issues.
MaxPly == 2
MaxRequests == 3
\* Actions a user takes on the game hook.
MaxUserActs == 3

(***************************************************************************)
(* Small helpers                                                           *)
(***************************************************************************)
Max(a, b) == IF a >= b THEN a ELSE b
Min(a, b) == IF a <= b THEN a ELSE b

Color == {"white", "black"}
Opposite(c) == IF c = "white" THEN "black" ELSE "white"

\* JavaScript's Infinity: larger than every material sum of the model.
Infinity == 1000000

(***************************************************************************)
(* The rules engine (@rumenx/chess behind ChessEngine).  A position is the *)
(* side to move, the pieces on the board and the game tree below it: the   *)
(* status the library reports and, per legal move, the piece it captures,  *)
(* whether Game.move accepts it, and the tree of the position it leads to. *)
(***************************************************************************)
NoPiece == "none"
EmptyCell == [type |-> NoPiece, color |-> NoPiece]
Piece(t, c) == [type |-> t, color |-> c]

TerminalStatuses ==
  {"checkmate", "stalemate", "draw", "insufficient_material",
   "threefold_repetition", "fifty_move_rule"}

Leaf(st) == [st |-> st, moves |-> <<>>]
Edge(cap, ok, sub) == [cap |-> cap, ok |-> ok, sub |-> sub, promo |-> FALSE]
\* A legal move that is a pawn promotion (move.promotion is set).
PromotionEdge(sub) ==
  [cap |-> NoPiece, ok |-> TRUE, sub |-> sub, promo |-> TRUE]
Node(st, edges) == [st |-> st, moves |-> edges]

\* The pieces of the root positions: each side has its king, a queen and
\* two pawns, the last cell is an empty square.
RootBoard ==
  << Piece("king", "white"), Piece("queen", "white"),
     Piece("pawn", "white"), Piece("pawn", "white"),
     Piece("king", "black"), Piece("queen", "black"),
     Piece("pawn", "black"), Piece("pawn", "black"), EmptyCell >>

\* A board with a piece of every type, the same pieces on both sides.
FullBoard ==
  RootBoard
    \o << Piece("rook", "white"), Piece("knight", "white"),
          Piece("knight", "white"), Piece("bishop", "white"),
          Piece("rook", "black"),
          Piece("knight", "black"), Piece("knight", "black"),
          Piece("bishop", "black") >>

\* The board with one piece of the given type and colour taken off.
RemovePiece(board, t, c) ==
  LET hits == {i \in DOMAIN board : board[i] = Piece(t, c)} IN
  IF hits = {} THEN board
  ELSE LET k == CHOOSE i \in hits : \A j \in hits : i <= j
       IN [i \in DOMAIN board |-> IF i = k THEN EmptyCell ELSE board[i]]

\* new ChessEngine(fen): the game positioned on a tree, with no history.
NewEngine(turn, board, shape) ==
  [pos |-> [turn |-> turn, board |-> board, shape |-> shape], hist |-> <<>>]

\* A move object as getLegalMoves returns it; id stands for its from and to.
MoveOf(pos, i) ==
  [id |-> i,
   captured |-> IF pos.shape.moves[i].cap = NoPiece THEN EmptyCell
                ELSE Piece(pos.shape.moves[i].cap, Opposite(pos.turn))]
NullMove == [id |-> 0, captured |-> EmptyCell]

GetLegalMoves(e) ==
  [i \in 1..Len(e.pos.shape.moves) |-> MoveOf(e.pos, i)]
GetTurn(e) == e.pos.turn
GetBoard(e) == e.pos.board
GetStatus(e) == e.pos.shape.st
GetHistory(e) == [i \in 1..Len(e.hist) |-> e.hist[i].move]
IsGameOver(e) == GetStatus(e) \in TerminalStatuses
IsInCheck(e) == GetStatus(e) \in {"check", "checkmate"}

\* ChessEngine.getResult
GetResult(e) ==
  CASE GetStatus(e) = "checkmate" ->
         IF GetTurn(e) = "white" THEN "0-1" ELSE "1-0"
    [] GetStatus(e) \in TerminalStatuses \ {"checkmate"} -> "1/2-1/2"
    [] OTHER -> "*"

\* ChessEngine.makeMove that answers null for a listed move it rejects but
\* has already put the position forward.
MakeMoveHalfApplied(e, id) ==
  IF id \in 1..Len(e.pos.shape.moves)
  THEN LET edge == e.pos.shape.moves[id]
           next == [turn |-> Opposite(e.pos.turn),
                    board |-> IF edge.cap = NoPiece THEN e.pos.board
                              ELSE RemovePiece(e.pos.board, edge.cap,
                                               Opposite(e.pos.turn)),
                    shape |-> edge.sub]
       IN [ok |-> edge.ok,
           e |-> [pos |-> next,
                  hist |-> IF edge.ok
                             THEN Append(e.hist, [move |-> MoveOf(e.pos, id),
                                                  prev |-> e.pos])
                           ELSE e.hist]]
  ELSE [ok |-> FALSE, e |-> e]

\* ChessEngine.makeMove(from, to, promotion): the applied move and the engine
\* after it, or null (ok = FALSE) and the engine untouched.
MakeMove(e, id) ==
  IF id \in 1..Len(e.pos.shape.moves) /\ e.pos.shape.moves[id].ok
  THEN LET edge == e.pos.shape.moves[id]
           next == [turn |-> Opposite(e.pos.turn),
                    board |-> IF edge.cap = NoPiece THEN e.pos.board
                              ELSE RemovePiece(e.pos.board, edge.cap,
                                               Opposite(e.pos.turn)),
                    shape |-> edge.sub]
       IN [ok |-> TRUE,
           e |-> [pos |-> next,
                  hist |-> Append(e.hist, [move |-> MoveOf(e.pos, id),
                                           prev |-> e.pos])]]
  ELSE [ok |-> FALSE, e |-> e]

\* ChessEngine.undo that puts the position back but keeps the move in the
\* history.
UndoKeepsHistory(e) ==
  IF e.hist = <<>> THEN [ok |-> FALSE, e |-> e]
  ELSE [ok |-> TRUE,
        e |-> [pos |-> e.hist[Len(e.hist)].prev, hist |-> e.hist]]

\* ChessEngine.undo: takes back the last move of the history, if any.
Undo(e) ==
  IF e.hist = <<>> THEN [ok |-> FALSE, e |-> e]
  ELSE [ok |-> TRUE,
        e |-> [pos |-> e.hist[Len(e.hist)].prev,
               hist |-> SubSeq(e.hist, 1, Len(e.hist) - 1)]]

(***************************************************************************)
(* The game trees the engine is positioned on: every node has one or two   *)
(* legal moves, at most one of which leads to a position that is not a     *)
(* leaf.  A leaf is a finished game (no legal move).                       *)
(***************************************************************************)
LeafShapes == {Leaf("checkmate"), Leaf("stalemate")}

\* A move that mates, a capture of the queen that stalemates, and a move the
\* engine rejects.
SideEdges ==
  {Edge(NoPiece, TRUE, Leaf("checkmate")), Edge("queen", TRUE, Leaf("stalemate")),
   Edge(NoPiece, FALSE, Leaf("stalemate"))}

RECURSIVE Shapes(_)
Shapes(h) ==
  IF h = 0 THEN LeafShapes
  ELSE LET below == Shapes(h - 1)
           main == {Edge(NoPiece, TRUE, s) : s \in below}
                     \cup {Edge("pawn", TRUE, s) : s \in below \ LeafShapes}
       IN below
            \cup {Node("active", <<m>>) : m \in main \cup SideEdges}
            \cup {Node("active", <<m, s>>) : m \in main, s \in SideEdges}
            \cup {Node("active", <<s, m>>) : m \in main, s \in SideEdges}

\* Taller trees, to MaxLadder plies: every position has a move down the
\* ladder and one of the side moves, the same two in turn at every rung.
RECURSIVE Ladder(_, _, _, _, _)
Ladder(h, sa, sb, sideFirst, bottom) ==
  IF h = 0 THEN bottom
  ELSE LET m == Edge(NoPiece, TRUE, Ladder(h - 1, sb, sa, sideFirst, bottom))
       IN Node("active", IF sideFirst THEN <<sa, m>> ELSE <<m, sa>>)

\* A position with more legal moves than the throttle of computeBestMove
\* allows for (60): the first goes down a ladder, the others end the game.
CrowdedShape ==
  Node("active",
       [i \in 1..61 |->
          IF i = 1
            THEN Edge(NoPiece, TRUE,
                      Ladder(MaxLadder, Edge(NoPiece, TRUE, Leaf("checkmate")),
                             Edge("queen", TRUE, Leaf("stalemate")), FALSE,
                             Leaf("stalemate")))
          ELSE Edge(NoPiece, TRUE, Leaf("stalemate"))])

\* A position in which the search cuts a branch off on a finite score.
\* The first move leads to a position where the opponent picks between a
\* reply after which a pawn can be won, and a reply after which the queen
\* can be won or mate given: winning the queen there is already more than
\* the pawn, and the mate is not looked at.  The second move ends the game
\* in a draw.
PruneShape ==
  Node("active",
       <<Edge(NoPiece, TRUE,
              Node("active",
                   <<Edge(NoPiece, TRUE,
                          Node("active",
                               <<Edge(NoPiece, TRUE, Leaf("stalemate")),
                                 Edge("pawn", TRUE, Leaf("stalemate"))>>)),
                     Edge(NoPiece, TRUE,
                          Node("active",
                               <<Edge("queen", TRUE, Leaf("stalemate")),
                                 Edge(NoPiece, TRUE, Leaf("checkmate"))>>))>>)),
         Edge(NoPiece, TRUE, Leaf("stalemate"))>>)

\* A position with captures of every value among its legal moves, quiet
\* moves between them and pieces of equal value taken in both orders; every
\* move ends the game in a draw.
OrderShape ==
  Node("active",
       [i \in 1..9 |->
          Edge(<<NoPiece, "pawn", "knight", NoPiece, "queen", "bishop",
                 "rook", "pawn", "knight">>[i],
               TRUE, Leaf("stalemate"))])

RootShapes ==
  Shapes(MaxHeight)
    \cup {CrowdedShape, PruneShape}
    \cup {Ladder(h, sa, sb, sf, bot) :
            h \in {MaxLadder - 1, MaxLadder}, sa \in SideEdges,
            sb \in SideEdges, sf \in BOOLEAN, bot \in LeafShapes}

(***************************************************************************)
(* ChessAI                                                                 *)
(***************************************************************************)
Levels ==
  {"harmless", "random", "easy", "medium", "hard", "expert", "godlike", "bogus"}

DepthForLevel(level) ==
  CASE level \in {"harmless", "random"} -> 0
    [] level = "easy" -> 1
    [] level = "medium" -> 2
    [] level = "hard" -> 3
    [] level = "expert" -> 4
    [] level = "godlike" -> 5
    [] OTHER -> 0

PieceValue(piece) ==
  CASE piece.type = "pawn" -> 100
    [] piece.type \in {"knight", "bishop"} -> 300
    [] piece.type = "rook" -> 500
    [] piece.type = "queen" -> 900
    [] piece.type = "king" -> 10000
    [] OTHER -> 0

CaptureValue(move) ==
  IF move.captured = EmptyCell THEN 0 ELSE PieceValue(move.captured)

RECURSIVE MaterialSum(_, _, _)
MaterialSum(board, i, maximizingColor) ==
  IF i > Len(board) THEN 0
  ELSE (IF board[i] = EmptyCell THEN 0
        ELSE IF board[i].color = maximizingColor THEN PieceValue(board[i])
        ELSE 0 - PieceValue(board[i]))
       + MaterialSum(board, i + 1, maximizingColor)

\* The evaluation that scores every finished game without a winner as 0.
EvaluateDrawIsZero(e, maximizingColor) ==
  LET score == MaterialSum(GetBoard(e), 1, maximizingColor) IN
  IF IsGameOver(e) /\ GetResult(e) = "1-0"
    THEN (IF maximizingColor = "white" THEN Infinity ELSE 0 - Infinity)
  ELSE IF IsGameOver(e) /\ GetResult(e) = "0-1"
    THEN (IF maximizingColor = "black" THEN Infinity ELSE 0 - Infinity)
  ELSE IF IsGameOver(e) THEN 0
  ELSE score

Evaluate(e, maximizingColor) ==
  LET score == MaterialSum(GetBoard(e), 1, maximizingColor) IN
  IF IsGameOver(e) /\ GetResult(e) = "1-0"
    THEN (IF maximizingColor = "white" THEN Infinity ELSE 0 - Infinity)
  ELSE IF IsGameOver(e) /\ GetResult(e) = "0-1"
    THEN (IF maximizingColor = "black" THEN Infinity ELSE 0 - Infinity)
  ELSE score

\* The stable sort of computeBestMove: captures first, by descending value.
\* How many moves of the sorted list stay in front of a move that comes in:
\* the list is in descending order, so these are its first moves.
KeptInFront(sorted, move, strictly) ==
  Cardinality({i \in DOMAIN sorted :
                 IF strictly
                   THEN CaptureValue(sorted[i]) > CaptureValue(move)
                 ELSE CaptureValue(sorted[i]) >= CaptureValue(move)})

\* The insertion of a sort that is not stable: a move goes in front of the
\* moves of its own capture value.
InsertBeforeEqual(sorted, move) ==
  LET k == KeptInFront(sorted, move, TRUE) IN
  SubSeq(sorted, 1, k) \o <<move>> \o SubSeq(sorted, k + 1, Len(sorted))

\* A move goes behind the moves of its own capture value.
InsertByCapture(sorted, move) ==
  LET k == KeptInFront(sorted, move, FALSE) IN
  SubSeq(sorted, 1, k) \o <<move>> \o SubSeq(sorted, k + 1, Len(sorted))

\* The moves lo..hi of the list, inserted into sorted in their order: the
\* first half of them, then the second half into what that gave.
RECURSIVE OrderPasses(_, _, _, _)
OrderPasses(sorted, moves, lo, hi) ==
  IF lo > hi THEN sorted
  ELSE IF lo = hi THEN InsertByCapture(sorted, moves[lo])
  ELSE LET mid == (lo + hi) \div 2 IN
       CHOOSE done \in {OrderPasses(first, moves, mid + 1, hi) :
                          first \in {OrderPasses(sorted, moves, lo, mid)}} :
         TRUE

OrderMoves(moves) == OrderPasses(<<>>, moves, 1, Len(moves))

\* What a search frame hands back: the value, the engine as the frame leaves
\* it, how many makeMove calls were accepted and undo calls were issued, how
\* many loops ended on a cut-off, and whether every branch left the engine
\* on the position its frame was entered with.
Ret(v, e, makes, undos, cuts, bal) ==
  [v |-> v, e |-> e, makes |-> makes, undos |-> undos, cuts |-> cuts,
   bal |-> bal]

\* The frame's record after one accepted branch: child is what the recursive
\* call returned, undone the engine after the undo that follows it.
AfterBranch(f, child, undone) ==
  [f EXCEPT !.makes = @ + 1 + child.makes,
            !.cuts = @ + child.cuts,
            !.bal = @ /\ child.bal /\ undone = f.e]

RECURSIVE Minimax(_, _, _, _, _)
RECURSIVE MinimaxMaxLoop(_)
RECURSIVE MinimaxMinLoop(_)
RECURSIVE MinimaxMinLoopBreakFirst(_)
RECURSIVE MinimaxMaxLoopCutsOnAlpha(_)

\* The maximizing loop with its cut-off test on alpha instead of beta.
MinimaxMaxLoopCutsOnAlpha(f) ==
  IF f.i > Len(f.legalMoves)
    THEN Ret(f.value, f.e, f.makes, f.undos, f.cuts, f.bal)
  ELSE
    LET applied == MakeMove(f.e, f.legalMoves[f.i].id) IN
    IF ~applied.ok THEN MinimaxMaxLoopCutsOnAlpha([f EXCEPT !.i = @ + 1])
    ELSE
      LET child == Minimax(applied.e, f.depth - 1, f.alpha, f.beta,
                           f.maximizingColor)
          undone == Undo(child.e).e
          value == Max(f.value, child.v)
          alpha == Max(f.alpha, value)
          g == AfterBranch(f, child, undone)
          undos == f.undos + 1 + child.undos
      IN IF value >= f.alpha
           THEN Ret(value, undone, g.makes, undos, g.cuts + 1, g.bal)
         ELSE MinimaxMaxLoopCutsOnAlpha(
                [g EXCEPT !.i = @ + 1, !.e = undone, !.value = value,
                          !.alpha = alpha, !.undos = undos])

\* The maximizing loop of minimax; f holds the frame's locals.
MinimaxMaxLoop(f) ==
  IF f.i > Len(f.legalMoves)
    THEN Ret(f.value, f.e, f.makes, f.undos, f.cuts, f.bal)
  ELSE
    LET applied == MakeMove(f.e, f.legalMoves[f.i].id) IN
    IF ~applied.ok THEN MinimaxMaxLoop([f EXCEPT !.i = @ + 1])
    ELSE
      LET child == Minimax(applied.e, f.depth - 1, f.alpha, f.beta,
                           f.maximizingColor)
          undone == Undo(child.e).e
          value == Max(f.value, child.v)
          alpha == Max(f.alpha, value)
          g == AfterBranch(f, child, undone)
          undos == f.undos + 1 + child.undos
      IN IF alpha >= f.beta
           THEN Ret(value, undone, g.makes, undos, g.cuts + 1, g.bal)
         ELSE MinimaxMaxLoop([g EXCEPT !.i = @ + 1, !.e = undone,
                                       !.value = value, !.alpha = alpha,
                                       !.undos = undos])

\* The minimizing loop with the cut-off test moved before the undo.
MinimaxMinLoopBreakFirst(f) ==
  IF f.i > Len(f.legalMoves)
    THEN Ret(f.value, f.e, f.makes, f.undos, f.cuts, f.bal)
  ELSE
    LET applied == MakeMove(f.e, f.legalMoves[f.i].id) IN
    IF ~applied.ok THEN MinimaxMinLoopBreakFirst([f EXCEPT !.i = @ + 1])
    ELSE
      LET child == Minimax(applied.e, f.depth - 1, f.alpha, f.beta,
                           f.maximizingColor)
          value == Min(f.value, child.v)
          beta == Min(f.beta, value)
          undone == Undo(child.e).e
      IN IF f.alpha >= beta
           THEN LET g == AfterBranch(f, child, child.e)
                IN Ret(value, child.e, g.makes, f.undos + child.undos,
                       g.cuts + 1, g.bal)
         ELSE LET g == AfterBranch(f, child, undone)
              IN MinimaxMinLoopBreakFirst(
                   [g EXCEPT !.i = @ + 1, !.e = undone, !.value = value,
                             !.beta = beta,
                             !.undos = f.undos + 1 + child.undos])

\* The minimizing loop of minimax.
MinimaxMinLoop(f) ==
  IF f.i > Len(f.legalMoves)
    THEN Ret(f.value, f.e, f.makes, f.undos, f.cuts, f.bal)
  ELSE
    LET applied == MakeMove(f.e, f.legalMoves[f.i].id) IN
    IF ~applied.ok THEN MinimaxMinLoop([f EXCEPT !.i = @ + 1])
    ELSE
      LET child == Minimax(applied.e, f.depth - 1, f.alpha, f.beta,
                           f.maximizingColor)
          undone == Undo(child.e).e
          value == Min(f.value, child.v)
          beta == Min(f.beta, value)
          g == AfterBranch(f, child, undone)
          undos == f.undos + 1 + child.undos
      IN IF f.alpha >= beta
           THEN Ret(value, undone, g.makes, undos, g.cuts + 1, g.bal)
         ELSE MinimaxMinLoop([g EXCEPT !.i = @ + 1, !.e = undone,
                                       !.value = value, !.beta = beta,
                                       !.undos = undos])

Minimax(e, depth, alpha, beta, maximizingColor) ==
  IF depth = 0 \/ IsGameOver(e)
    THEN Ret(Evaluate(e, maximizingColor), e, 0, 0, 0, TRUE)
  ELSE
    LET legalMoves == GetLegalMoves(e) IN
    IF Len(legalMoves) = 0
      THEN Ret(Evaluate(e, maximizingColor), e, 0, 0, 0, TRUE)
    ELSE
      LET isMaximizing == GetTurn(e) = maximizingColor
          f == [e |-> e, legalMoves |-> legalMoves, i |-> 1, depth |-> depth,
                alpha |-> alpha, beta |-> beta,
                maximizingColor |-> maximizingColor,
                value |-> IF isMaximizing THEN 0 - Infinity ELSE Infinity,
                makes |-> 0, undos |-> 0, cuts |-> 0, bal |-> TRUE]
      IN IF isMaximizing THEN MinimaxMaxLoop(f) ELSE MinimaxMinLoop(f)

\* The emergency throttle of computeBestMove.
ThrottleMoves == 60
ThrottleDepth == 3

\* The throttle without its test of the depth.
EffectiveDepthAnyTier(depth, moveCount) ==
  IF moveCount > ThrottleMoves THEN ThrottleDepth ELSE depth

EffectiveDepth(depth, moveCount) ==
  IF moveCount > ThrottleMoves /\ depth > ThrottleDepth THEN ThrottleDepth
  ELSE depth

\* What computeBestMove hands back: the move (NullMove for null), the engine
\* as the call leaves it, the accepted makeMove calls and the undo calls it
\* issued, the score of every root candidate the engine accepted, the
\* effective depth its loop searched with (0 when no loop ran) and the
\* ordered candidate list the loop went over.
BestRet(move, e, makes, undos, cuts, bal, scores) ==
  [move |-> move, e |-> e, makes |-> makes, undos |-> undos, cuts |-> cuts,
   bal |-> bal, scores |-> scores, depth |-> 0, ordered |-> <<>>]

\* The return of computeBestMove once its loop is through, from the locals
\* the loop left.
BestMoveReturn(f) ==
  [BestRet(f.bestMove, f.e, f.makes, f.undos, f.cuts, f.bal, f.scores)
     EXCEPT !.depth = f.effectiveDepth, !.ordered = f.ordered]

\* One pass of the loop of computeBestMove, for the candidate f.i.
BestMoveStep(f) ==
  LET move == f.ordered[f.i]
      applied == MakeMove(f.e, move.id)
  IN
  IF ~applied.ok THEN [f EXCEPT !.i = @ + 1]
  ELSE
    LET child == Minimax(applied.e, f.effectiveDepth - 1, 0 - Infinity,
                         Infinity, f.maximizingColor)
        undone == Undo(child.e).e
        better == child.v > f.bestScore
    IN [AfterBranch(f, child, undone)
          EXCEPT !.i = @ + 1, !.e = undone,
                 !.bestScore = IF better THEN child.v ELSE @,
                 !.bestMove = IF better THEN move ELSE @,
                 !.undos = @ + 1 + child.undos,
                 !.scores = Append(@, [move |-> move, score |-> child.v])]

\* The passes for the candidates lo..hi, in their order: the first half of
\* them, then the second half from the locals the first half left.
RECURSIVE BestMovePasses(_, _, _)
BestMovePasses(f, lo, hi) ==
  IF lo > hi THEN f
  ELSE IF lo = hi THEN BestMoveStep(f)
  ELSE LET mid == (lo + hi) \div 2 IN
       CHOOSE done \in {BestMovePasses(first, mid + 1, hi) :
                          first \in {BestMovePasses(f, lo, mid)}} :
         TRUE

\* The loop of computeBestMove over the ordered candidates.
BestMoveLoop(f) ==
  BestMoveReturn(BestMovePasses(f, 1, Len(f.ordered)))

\* computeBestMove with the empty-list test of the random tiers left out:
\* the pick from an empty list is undefined, which is not null.
ComputeBestMoveNoEmptyTest(e, level, rnd) ==
  LET depth == DepthForLevel(level)
      legalMoves == GetLegalMoves(e)
  IN
  IF depth = 0 THEN
    BestRet(IF rnd \in DOMAIN legalMoves THEN legalMoves[rnd]
            ELSE [id |-> rnd, captured |-> EmptyCell],
            e, 0, 0, 0, TRUE, <<>>)
  ELSE
    BestMoveLoop([e |-> e, ordered |-> OrderMoves(legalMoves), i |-> 1,
                  effectiveDepth |-> EffectiveDepth(depth, Len(legalMoves)),
                  maximizingColor |-> GetTurn(e),
                  bestMove |-> NullMove, bestScore |-> 0 - Infinity,
                  makes |-> 0, undos |-> 0, cuts |-> 0, bal |-> TRUE,
                  scores |-> <<>>])

\* computeBestMove whose random tiers play the move they picked, as
\* makeRandomMove does.
ComputeBestMoveRandomPlays(e, level, rnd) ==
  LET depth == DepthForLevel(level)
      legalMoves == GetLegalMoves(e)
  IN
  IF depth = 0 THEN
    IF Len(legalMoves) = 0 THEN BestRet(NullMove, e, 0, 0, 0, TRUE, <<>>)
    ELSE BestRet(legalMoves[rnd], MakeMove(e, legalMoves[rnd].id).e,
                 1, 0, 0, TRUE, <<>>)
  ELSE
    BestMoveLoop([e |-> e, ordered |-> OrderMoves(legalMoves), i |-> 1,
                  effectiveDepth |-> EffectiveDepth(depth, Len(legalMoves)),
                  maximizingColor |-> GetTurn(e),
                  bestMove |-> NullMove, bestScore |-> 0 - Infinity,
                  makes |-> 0, undos |-> 0, cuts |-> 0, bal |-> TRUE,
                  scores |-> <<>>])

\* ChessAI.computeBestMove(engine, level); rnd is what Math.random() picks.
ComputeBestMove(e, level, rnd) ==
  LET depth == DepthForLevel(level) IN
  IF depth = 0 THEN
    LET legal == GetLegalMoves(e) IN
    IF Len(legal) = 0 THEN BestRet(NullMove, e, 0, 0, 0, TRUE, <<>>)
    ELSE BestRet(legal[rnd], e, 0, 0, 0, TRUE, <<>>)
  ELSE
    LET legalMoves == GetLegalMoves(e) IN
    BestMoveLoop([e |-> e, ordered |-> OrderMoves(legalMoves), i |-> 1,
                  effectiveDepth |-> EffectiveDepth(depth, Len(legalMoves)),
                  maximizingColor |-> GetTurn(e),
                  bestMove |-> NullMove, bestScore |-> 0 - Infinity,
                  makes |-> 0, undos |-> 0, cuts |-> 0, bal |-> TRUE,
                  scores |-> <<>>])

\* The indices Math.floor(Math.random() * n) can yield (one when n = 0, where
\* the value is not used).
RandomPicks(e) == 1..Max(1, Len(GetLegalMoves(e)))

\* No computeBestMove call has been made (or its result was consumed).
NoCall ==
  [called |-> FALSE, level |-> "harmless", pre |-> <<>>, move |-> NullMove,
   makes |-> 0, undos |-> 0, cuts |-> 0, bal |-> TRUE, scores |-> <<>>,
   depth |-> 0, ordered |-> <<>>]

(***************************************************************************)
(* The adapters (adapters.ts) and LocalProvider's gameToNorm.  A raw game  *)
(* state is the JSON a backend answered; only the fields the game-over,    *)
(* status, result and turn computations read are kept.                     *)
(***************************************************************************)
\* assertColor
AssertColor(c) ==
  CASE c \in {"white", "black"} -> c
    [] c = "w" -> "white"
    [] c = "b" -> "black"
    [] OTHER -> "white"

NormStatuses ==
  {"active", "check", "checkmate", "stalemate", "draw",
   "insufficient_material", "threefold_repetition", "fifty_move_rule"}

DrawStatuses ==
  {"stalemate", "draw", "insufficient_material", "threefold_repetition",
   "fifty_move_rule"}

NormGameState(turn, status, check, result, gameOver) ==
  [turn |-> turn, status |-> status, check |-> check, result |-> result,
   gameOver |-> gameOver]

\* Names every object literal answers for through Object.prototype: map[s]
\* is then a function of the prototype, which ?? does not replace.
InheritedKeys == {"constructor", "toString"}

\* rustNormStatus: map[s] ?? 'active'
RustNormStatus(s) ==
  CASE s \in NormStatuses -> s
    [] s \in InheritedKeys -> "[native code]"
    [] OTHER -> "active"

RustDeriveResult(status, currentPlayer) ==
  CASE status = "checkmate" -> IF currentPlayer = "white" THEN "0-1" ELSE "1-0"
    [] status \in DrawStatuses -> "1/2-1/2"
    [] OTHER -> "*"

RustNormGame(raw) ==
  NormGameState(AssertColor(raw.player), RustNormStatus(raw.status),
                raw.check, RustDeriveResult(raw.status, raw.player),
                raw.status \in {"checkmate"} \cup DrawStatuses)

GoNormStatus(s) ==
  CASE s = "in_progress" -> "active"
    [] s = "check" -> "check"
    [] s \in {"white_wins", "black_wins"} -> "checkmate"
    [] s \in DrawStatuses -> s
    [] s \in InheritedKeys -> "[native code]"
    [] OTHER -> "active"

GoDeriveResult(status) ==
  CASE status = "white_wins" -> "1-0"
    [] status = "black_wins" -> "0-1"
    [] status \in DrawStatuses -> "1/2-1/2"
    [] OTHER -> "*"

GoNormGame(raw) ==
  NormGameState(AssertColor(raw.player), GoNormStatus(raw.status),
                raw.status = "check", GoDeriveResult(raw.status),
                raw.status \in {"white_wins", "black_wins"} \cup DrawStatuses)

JsDeriveResult(raw) ==
  IF raw.checkmate THEN (IF raw.winner = "white" THEN "1-0" ELSE "0-1")
  ELSE IF raw.gameOver THEN "1/2-1/2"
  ELSE "*"

JsNormStatus(raw) ==
  IF raw.checkmate THEN "checkmate"
  ELSE IF raw.stalemate THEN "stalemate"
  ELSE IF raw.inThreefoldRepetition THEN "threefold_repetition"
  ELSE IF raw.inFiftyMoveRule THEN "fifty_move_rule"
  ELSE IF raw.gameOver THEN "draw"
  ELSE IF raw.check THEN "check"
  ELSE "active"

JsNormGame(raw) ==
  NormGameState(AssertColor(raw.player), JsNormStatus(raw), raw.check,
                JsDeriveResult(raw), raw.gameOver)

\* gameToNorm of LocalProvider; isInCheck is the engine's check/checkmate.
GameToNorm(e) ==
  NormGameState(GetTurn(e), GetStatus(e),
                GetStatus(e) \in {"check", "checkmate"}, GetResult(e),
                IsGameOver(e))

\* The raw answers: any status word a backend knows, one none knows, a
\* missing one, names of Object.prototype, colours in both spellings, a
\* broken one and a missing one, every combination of the js flags.
RawStatuses ==
  NormStatuses
    \cup {"in_progress", "white_wins", "black_wins", "bogus", "undefined"}
    \cup InheritedKeys
RawBase ==
  [status |-> "bogus", player |-> "white", check |-> FALSE,
   gameOver |-> FALSE, checkmate |-> FALSE, stalemate |-> FALSE,
   inThreefoldRepetition |-> FALSE, inFiftyMoveRule |-> FALSE,
   winner |-> "none"]
StatusRaws ==
  {[RawBase EXCEPT !.status = s, !.player = c, !.check = k] :
     s \in RawStatuses,
     c \in {"white", "black", "w", "b", "bogus", "undefined"},
     k \in BOOLEAN}
FlagRaws ==
  {[RawBase EXCEPT !.player = c, !.check = f[1], !.gameOver = f[2],
                   !.checkmate = f[3], !.stalemate = f[4],
                   !.inThreefoldRepetition = f[5], !.inFiftyMoveRule = f[6],
                   !.winner = w] :
     f \in [1..6 -> BOOLEAN], c \in {"white", "b"},
     w \in {"white", "black", "none"}}

\* The positions a local game is normalised on: every status of the engine,
\* finished or one move from finished, either side to move.
NormShapes ==
  {Leaf(st) : st \in {"checkmate"} \cup DrawStatuses}
    \cup {Node(st, <<Edge(NoPiece, TRUE, Leaf(t))>>) :
            st \in {"active", "check"}, t \in {"checkmate"} \cup DrawStatuses}

(***************************************************************************)
(* The backend selector (BackendProvider of BackendContext).  connected is *)
(* true, false or null; a health check in flight remembers the provider    *)
(* instance that was active when it was started, with its backend and the  *)
(* URL override it asks (NoUrl: the preset URL).  Provider instances are   *)
(* numbered as the provider memo builds them (inst is the active one);     *)
(* disposed holds the instances dispose() was called on: no code of the    *)
(* context or of its consumers calls it.                                   *)
(***************************************************************************)
BackendIds == {"local", "rust", "go", "js"}
RemoteIds == BackendIds \ {"local"}
NoUrl == "none"
Urls == {"http://other:9000"}

\* An item of localStorage as getItem returns it: null (absent), or the
\* JSON text of a string or of an object, the latter as its key/value
\* pairs.
Absent == [kind |-> "absent", str |-> "", entries |-> {}]
EmptyStorage == [rc_backend |-> Absent, rc_backendUrls |-> Absent]

\* JSON.stringify of a backend id and of the urlOverrides object; a key
\* that was never set (NoUrl) is not in the object.
StringifyId(id) == [kind |-> "string", str |-> id, entries |-> {}]
StringifyUrls(o) ==
  [kind |-> "object", str |-> "",
   entries |-> {<<id, o[id]>> : id \in {i \in DOMAIN o : o[i] # NoUrl}}]

\* JSON.parse of a stored text: the string, or the object as the URL of
\* each backend id.
JsonParse(raw) ==
  IF raw.kind = "string" THEN raw.str
  ELSE [id \in RemoteIds |->
          IF \E p \in raw.entries : p[1] = id
            THEN (CHOOSE p \in raw.entries : p[1] = id)[2]
          ELSE NoUrl]

\* loadJSON(key, fallback), raw being localStorage.getItem(key)
LoadJSON(raw, fallback) ==
  IF raw.kind = "absent" THEN fallback ELSE JsonParse(raw)

\* The build's environment: VITE_CHESS_BACKEND (unset, a backend id or
\* some other text) and the VITE_CHESS_*_URL variables (NoUrl: unset).
NoEnv == [backend |-> "", urls |-> [id \in RemoteIds |-> NoUrl]]
EnvUrl == "http://env:8000"
Envs ==
  [backend : {"", "rust", "desktop"},
   urls : {[id \in RemoteIds |-> IF id \in set THEN EnvUrl ELSE NoUrl] :
             set \in {{}, {"rust"}, {"rust", "go"}}}]

\* envBackend()
EnvBackend(env) ==
  IF env.backend \in {"rust", "go", "js", "local"} THEN env.backend
  ELSE "local"

\* envUrls()
EnvUrls(env) == env.urls

\* { ...defaults, ...over }
Spread(defaults, over) ==
  [id \in RemoteIds |-> IF over[id] # NoUrl THEN over[id] ELSE defaults[id]]

\* The state after the useState initialisers, before any effect has run,
\* for an initial backend id; storage is localStorage, env the
\* environment of the build and boot the storage the selector started from.
NewSelector(backendId) ==
  [backendId |-> backendId,
   urlOverrides |-> [id \in RemoteIds |-> NoUrl],
   connected |-> IF backendId \in {"local", "js"} THEN "true" ELSE "null",
   connectionError |-> "null",
   checking |-> FALSE,
   inst |-> 1,
   disposed |-> {},
   health |-> <<>>,
   storage |-> EmptyStorage,
   env |-> NoEnv,
   boot |-> EmptyStorage]

\* The useState initialisers with the environment's backend before the
\* persisted one.
StartupEnvFirst(storage, env) ==
  [NewSelector(IF env.backend \in {"rust", "go", "js", "local"}
                 THEN env.backend
               ELSE LoadJSON(storage.rc_backend, "local"))
     EXCEPT !.urlOverrides =
               Spread(EnvUrls(env),
                      LoadJSON(storage.rc_backendUrls,
                               [id \in RemoteIds |-> NoUrl])),
            !.storage = storage, !.env = env, !.boot = storage]

\* The useState initialisers of BackendProvider over a storage and an
\* environment.
Startup(storage, env) ==
  [NewSelector(LoadJSON(storage.rc_backend, EnvBackend(env)))
     EXCEPT !.urlOverrides =
               Spread(EnvUrls(env),
                      LoadJSON(storage.rc_backendUrls,
                               [id \in RemoteIds |-> NoUrl])),
            !.storage = storage, !.env = env, !.boot = storage]

\* The two persist effects: saveJSON of the backend choice and of the URL
\* overrides.
Persist(s) ==
  [s EXCEPT !.storage = [rc_backend |-> StringifyId(s.backendId),
                         rc_backendUrls |-> StringifyUrls(s.urlOverrides)]]

\* checkConnection, up to the point where it awaits fetch.
CheckConnectionStart(s) ==
  IF s.backendId \in {"local", "js"}
    THEN [s EXCEPT !.connected = "true", !.connectionError = "null"]
  ELSE [s EXCEPT !.checking = TRUE,
                 !.health = Append(@, [inst |-> s.inst,
                                       backendId |-> s.backendId,
                                       url |-> s.urlOverrides[s.backendId]])]

\* checkConnection from the point where fetch settled: res.ok, a status
\* that is not ok, or a rejection (network failure, the 5 s timeout).
HealthOutcomes == {"ok", "status", "throw"}

\* checkConnection whose success branch leaves the error message alone.
CheckConnectionEndKeepsError(s, i, outcome) ==
  [s EXCEPT !.connected = IF outcome = "ok" THEN "true" ELSE "false",
            !.connectionError =
               CASE outcome = "ok" -> @
                 [] outcome = "status" -> "Health check returned 503"
                 [] OTHER -> "The operation timed out",
            !.checking = FALSE,
            !.health = SubSeq(@, 1, i - 1) \o SubSeq(@, i + 1, Len(@))]

CheckConnectionEnd(s, i, outcome) ==
  [s EXCEPT !.connected = IF outcome = "ok" THEN "true" ELSE "false",
            !.connectionError =
               CASE outcome = "ok" -> "null"
                 [] outcome = "status" -> "Health check returned 503"
                 [] OTHER -> "The operation timed out",
            !.checking = FALSE,
            !.health = SubSeq(@, 1, i - 1) \o SubSeq(@, i + 1, Len(@))]

\* A render after backendId or urlOverrides changed: the provider memo and
\* checkConnection are rebuilt, and the auto-check effect calls the latter.
\* The persist effects run after it.
SelectorRerender(s) ==
  Persist(CheckConnectionStart([s EXCEPT !.inst = @ + 1]))

\* switchBackend(id, customUrl) and the render that follows it.
SwitchBackendOn(s, id, customUrl) ==
  LET withUrl == customUrl # NoUrl /\ id # "local"
      changed == id # s.backendId \/ withUrl
      set == [s EXCEPT !.urlOverrides = IF withUrl
                                          THEN [@ EXCEPT ![id] = customUrl]
                                        ELSE @,
                       !.connected = IF id = "local" THEN "true" ELSE "null",
                       !.connectionError = "null",
                       !.backendId = id]
  IN IF changed THEN SelectorRerender(set) ELSE set

\* setBackendUrl(id, url) and the render that follows it.
SetBackendUrlOn(s, id, url) ==
  SelectorRerender([s EXCEPT !.urlOverrides[id] = url])

\* Room for one more provider instance and one more health check.
SelectorRoom(s) == s.inst < MaxInst /\ Len(s.health) < MaxHealth

\* The effects of the first render: the auto-check and the two persist
\* effects.
Mount(s) == Persist(CheckConnectionStart(s))

\* The selector once mounted, for an initial backend id.
MountedSelector(backendId) == Mount(NewSelector(backendId))

(***************************************************************************)
(* The game session: useChessBackendGame (part_004) and the handlers and   *)
(* effects of App that drive it.  The session's engine is kept as the side *)
(* that moved first, the number of plies played and whether the position   *)
(* came from a loaded FEN; backend is the position, kept the same way, of  *)
(* the game remoteGameId names on its backend, which changes when the      *)
(* backend answers a request.  A world w is the selector and the session   *)
(* together, as one render sees them; over is set when a handler would     *)
(* issue more requests than MaxRequests.                                   *)
(***************************************************************************)
NoGameId == [k |-> 0, inst |-> 0]

NewSession(aiEnabled, playerColor) ==
  [turn0 |-> "white", len |-> 0, fen |-> "start",
   remoteGameId |-> NoGameId, didInit |-> FALSE, loading |-> FALSE,
   error |-> "null", nreq |-> 0, pending |-> {},
   aiEnabled |-> aiEnabled, playerColor |-> playerColor,
   think |-> "none", superseded |-> FALSE, liveThinks |-> 0,
   backend |-> [turn0 |-> "white", len |-> 0, fen |-> "start"]]

World(s, a) == [sel |-> s, app |-> a, over |-> FALSE]

\* engine.getTurn()
Turn(a) == IF a.len % 2 = 0 THEN a.turn0 ELSE Opposite(a.turn0)
IsRemote(w) == w.sel.backendId # "local"

\* A request handed to the provider instance inst, the k-th of the session;
\* the game a createGame makes is known by k and the instance.
Issue(w, inst, op, turn) ==
  IF w.app.nreq >= MaxRequests THEN [w EXCEPT !.over = TRUE]
  ELSE [w EXCEPT !.app.nreq = @ + 1,
                 !.app.pending = @ \cup {[k |-> w.app.nreq + 1, inst |-> inst,
                                          op |-> op, turn |-> turn,
                                          game |-> IF op = "createGame"
                                                     THEN NoGameId
                                                   ELSE w.app.remoteGameId]}]

\* The fire-and-forget sync of makeMove, undoMove and loadFEN.
RemoteSync(w, op) ==
  IF IsRemote(w) /\ w.app.remoteGameId # NoGameId
    THEN Issue(w, w.sel.inst, op,
               IF op = "loadFen" THEN w.app.turn0 ELSE "white")
  ELSE w

\* The position changes under a think that waits for its delay.
Supersede(w) ==
  [w EXCEPT !.app.superseded = w.app.think = "live"]

\* resetGame(startingColor) as built in a render whose backend was remote
\* (isRemote) with provider instance inst.
ResetGame(w, startingColor, isRemote, inst) ==
  LET r == Supersede([w EXCEPT !.app.turn0 = startingColor, !.app.len = 0,
                               !.app.fen = "start"])
  IN IF isRemote
       THEN Issue([r EXCEPT !.app.didInit = FALSE, !.app.loading = TRUE],
                  inst, "createGame", startingColor)
     ELSE r

\* applyRemoteState(state) for the game that request r made.
ApplyRemoteState(w, r) ==
  [Supersede(w) EXCEPT !.app.turn0 = r.turn, !.app.len = 0,
                       !.app.fen = "start",
                       !.app.remoteGameId = [k |-> r.k, inst |-> r.inst],
                       !.app.backend = [turn0 |-> r.turn, len |-> 0,
                                        fen |-> "start"]]

\* The backend served request r (a move, an undo or a FEN load) on its
\* game: the position of the game remoteGameId names after that.
BackendServed(w, r) ==
  IF r.game # w.app.remoteGameId THEN w
  ELSE CASE r.op = "makeMove" -> [w EXCEPT !.app.backend.len = @ + 1]
         [] r.op = "undoMove" ->
              [w EXCEPT !.app.backend.len = IF @ > 0 THEN @ - 1 ELSE @]
         [] r.op = "loadFen" ->
              [w EXCEPT !.app.backend = [turn0 |-> r.turn, len |-> 0,
                                         fen |-> "custom"]]
         [] OTHER -> w

\* The auto-create effect; its dependencies are isRemote and provider.
AutoCreateEffect(old, w, mount) ==
  IF ~mount /\ IsRemote(old) = IsRemote(w) /\ old.sel.inst = w.sel.inst THEN w
  ELSE IF ~IsRemote(w) THEN [w EXCEPT !.app.didInit = FALSE]
  ELSE IF w.app.didInit THEN w
  ELSE Issue([w EXCEPT !.app.didInit = TRUE, !.app.loading = TRUE,
                       !.app.error = "null"],
             w.sel.inst, "createGame", "white")

\* What the AI effect depends on; makeMove changes with isRemote,
\* remoteGameId and provider.
AIDeps(w) ==
  <<Turn(w.app), w.app.aiEnabled, w.app.playerColor, w.app.len,
    IsRemote(w), w.app.remoteGameId, w.sel.inst>>

\* The AI effect whose runs return no cleanup: a think that waits for its
\* delay is not cancelled when the effect runs again.
AIEffectNoCleanup(old, w, mount) ==
  IF ~mount /\ AIDeps(old) = AIDeps(w) THEN w
  ELSE IF w.app.aiEnabled /\ Turn(w.app) # w.app.playerColor
         THEN [w EXCEPT !.app.think = "live", !.app.superseded = FALSE,
                        !.app.liveThinks = @ + 1]
       ELSE w

\* The AI effect: the cleanup of the previous run sets its cancelled flag,
\* then a think is started when it is the AI's turn.  isGameOver is the
\* memo over [engine], computed once on the starting position.  liveThinks
\* counts the thinks that wait for their delay with cancelled still false.
AIEffect(old, w, mount) ==
  IF ~mount /\ AIDeps(old) = AIDeps(w) THEN w
  ELSE LET cleaned == [w EXCEPT !.app.think = "none",
                                !.app.superseded = FALSE,
                                !.app.liveThinks =
                                   IF w.app.think = "live" THEN @ - 1 ELSE @]
       IN IF w.app.aiEnabled /\ Turn(w.app) # w.app.playerColor
            THEN [cleaned EXCEPT !.app.think = "live",
                                 !.app.liveThinks = @ + 1]
          ELSE cleaned

\* The effect of App that restarts a two-player game on the player's colour.
TwoPlayerDeps(w) ==
  <<w.app.aiEnabled, w.app.len, Turn(w.app), w.app.playerColor,
    IsRemote(w), w.sel.inst>>
TwoPlayerEffect(old, w, mount) ==
  IF (mount \/ TwoPlayerDeps(old) # TwoPlayerDeps(w))
       /\ ~w.app.aiEnabled /\ w.app.len = 0
       /\ Turn(w.app) # w.app.playerColor
    THEN ResetGame(w, w.app.playerColor, IsRemote(w), w.sel.inst)
  ELSE w

\* One render after a handler: the effects run in the order of their
\* declaration, each on what the render saw.
Effects(old, w, mount) ==
  TwoPlayerEffect(old, AIEffect(old, AutoCreateEffect(old, w, mount), mount),
                  mount)

\* The renders that follow a handler, until no effect changes the state.
Render(old, w) ==
  LET first == Effects(old, w, FALSE) IN Effects(w, first, FALSE)

MountedSession(backendId, aiEnabled, playerColor) ==
  LET w == World(MountedSelector(backendId), NewSession(aiEnabled, playerColor))
      first == Effects(w, w, TRUE)
  IN Effects(w, first, FALSE)

UiIdle ==
  /\ sel = MountedSelector("local")
  /\ app = MountedSession("local", TRUE, "white").app

(***************************************************************************)
(* The providers: LocalProvider keeps engines in a map keyed by game id,   *)
(* RemoteProvider turns every operation into one fetch.                    *)
(***************************************************************************)
\* REMOTE_CAPS and LocalProvider.capabilities
Capabilities(backendId) ==
  [undo |-> backendId # "go", ai |-> TRUE, hint |-> TRUE,
   analysis |-> backendId # "local",
   chat |-> backendId \in {"rust", "go"},
   websocket |-> backendId \in {"rust", "go"},
   pgn |-> TRUE, fenLoad |-> TRUE]


NoGames == [id \in {} |-> NewEngine("white", RootBoard, Leaf("stalemate"))]
NewLocalProvider(nextLocalId) == [games |-> NoGames, nextLocalId |-> nextLocalId]
\* A URL is a sequence of pieces of text; "/" is one slash.
HostUrl == <<"http://host">>

\* The base URLs a RemoteProvider is built with: none, one and two trailing
\* slashes, and a slash inside the URL that is not at its end.
BaseUrls ==
  {HostUrl, HostUrl \o <<"/">>, HostUrl \o <<"/", "/">>,
   HostUrl \o <<"/", "chess", "/">>}

\* baseUrl.replace(/\/$/, ''): at most one trailing slash is removed.
StripOneSlash(url) ==
  IF Len(url) > 0 /\ url[Len(url)] = "/"
    THEN SubSeq(url, 1, Len(url) - 1)
  ELSE url

\* baseUrl.replace(/\/+$/, '')
RECURSIVE StripTrailingSlashes(_)
StripTrailingSlashes(url) ==
  IF Len(url) > 0 /\ url[Len(url)] = "/"
    THEN StripTrailingSlashes(SubSeq(url, 1, Len(url) - 1))
  ELSE url

\* ADAPTERS[backendId].apiPrefix
ApiPrefix(backendId) ==
  CASE backendId = "rust" -> "/api"
    [] backendId = "go" -> "/api"
    [] backendId = "js" -> "/api/v1"

\* new RemoteProvider(backendId, baseUrl); given is the constructor's
\* argument, kept to state what baseUrl is derived from.
NewRemoteProvider(backendId, given, fetchCount) ==
  [backendId |-> backendId, given |-> given,
   baseUrl |-> StripTrailingSlashes(given), fetchCount |-> fetchCount]

\* The request a method hands to fetch; NoRequest when it sent none.
NoRequest == [method |-> "", url |-> <<>>]

\* The fields of the NormGameState gameToNorm builds that tell a game and
\* its position: id, fen, turn, moveCount and moveHistory.
LocalGameState(id, e) ==
  [id |-> id, fen |-> e.pos, turn |-> GetTurn(e),
   moveCount |-> Len(GetHistory(e)), moveHistory |-> GetHistory(e)]
NoGameState == [id |-> 0]

\* A settled provider call; gamesBefore and fetchBefore are the game store
\* and the fetch count the call found, out the game state it resolved with
\* (NoGameState when it resolved with something else or rejected), move the
\* move an aiMove resolved with.
Settled(target, op, ok, error, gamesBefore, fetchBefore) ==
  [target |-> target, op |-> op, ok |-> ok, error |-> error,
   gamesBefore |-> gamesBefore, fetchBefore |-> fetchBefore,
   out |-> NoGameState, api |-> [status |-> 0, code |-> "", message |-> ""],
   sent |-> NoRequest, move |-> NullMove]
NoProviderCall == Settled("none", "none", TRUE, "", NoGames, 0)

ProvIdle ==
  /\ local = NewLocalProvider(1)
  /\ remote = NewRemoteProvider("rust", HostUrl, 0)
  /\ call = NoProviderCall

NoNorm == [adapter |-> "none", raw |-> RawBase,
           out |-> NormGameState("white", "active", FALSE, "*", FALSE)]
NormIdle == norm = NoNorm

InitNorm ==
  /\ engine \in {NewEngine(t, RootBoard, s) : t \in Color, s \in NormShapes}
  /\ aiOut = NoCall
  /\ NormIdle /\ ProvIdle /\ UiIdle

\* A rust-chess answer goes through rustNormGame.
NormRust(raw) ==
  /\ NormIdle
  /\ norm' = [adapter |-> "rust", raw |-> raw, out |-> RustNormGame(raw)]
  /\ UNCHANGED <<aiVars, provVars, uiVars>>

\* A go-chess answer goes through goNormGame.
NormGo(raw) ==
  /\ NormIdle
  /\ norm' = [adapter |-> "go", raw |-> raw, out |-> GoNormGame(raw)]
  /\ UNCHANGED <<aiVars, provVars, uiVars>>

\* An npm-chess answer goes through jsNormGame.
NormJs(raw) ==
  /\ NormIdle
  /\ norm' = [adapter |-> "js", raw |-> raw, out |-> JsNormGame(raw)]
  /\ UNCHANGED <<aiVars, provVars, uiVars>>

\* The local engine's state goes through gameToNorm.
NormLocal ==
  /\ NormIdle
  /\ norm' = [adapter |-> "local", raw |-> RawBase, out |-> GameToNorm(engine)]
  /\ UNCHANGED <<aiVars, provVars, uiVars>>

\* The caller is done with the normalised state.
NormForget ==
  /\ ~NormIdle
  /\ norm' = NoNorm
  /\ UNCHANGED <<aiVars, provVars, uiVars>>

\* A move is played on the local engine.
NormLocalPlay ==
  /\ NormIdle
  /\ MakeMove(engine, 1).ok
  /\ engine' = MakeMove(engine, 1).e
  /\ UNCHANGED <<aiOut, normVars, provVars, uiVars>>

NextNorm ==
  \/ \E raw \in StatusRaws : NormRust(raw)
  \/ \E raw \in StatusRaws : NormGo(raw)
  \/ \E raw \in FlagRaws : NormJs(raw)
  \/ NormLocal
  \/ NormForget
  \/ NormLocalPlay

SpecNorm == InitNorm /\ [][NextNorm]_vars

\* The provider memo of BackendProvider: the instance built for the active
\* backend, as its backendId and capabilities.
Provider(s) ==
  IF s.backendId \in {"local", "js"}
    THEN [backendId |-> "local", capabilities |-> Capabilities("local")]
  ELSE [backendId |-> s.backendId,
        capabilities |-> Capabilities(s.backendId)]

(***************************************************************************)
(* SpecProvider: a client calls operations of a LocalProvider and of a     *)
(* RemoteProvider; a fetch ends with an answer, an HTTP error status or a  *)
(* network failure.                                                        *)
(***************************************************************************)
\* The positions createGame starts a local game on (options.fen).
StartShapes ==
  {Leaf("stalemate"),
   Node("active", <<Edge(NoPiece, TRUE, Leaf("checkmate")),
                    Edge(NoPiece, FALSE, Leaf("stalemate"))>>),
   Node("active",
        <<Edge("pawn", TRUE,
               Node("check", <<Edge("queen", TRUE, Leaf("stalemate"))>>))>>)}

PutGame(games, id, e) ==
  [g \in DOMAIN games \cup {id} |-> IF g = id THEN e ELSE games[g]]
DropGame(games, id) == [g \in DOMAIN games \ {id} |-> games[g]]

SettledNow(target, op, ok, error) ==
  Settled(target, op, ok, error, local.games, remote.fetchCount)

InitProvider ==
  /\ engine = NewEngine("white", RootBoard, Leaf("stalemate"))
  /\ aiOut = NoCall
  /\ NormIdle /\ UiIdle
  /\ local = NewLocalProvider(1)
  /\ remote \in {NewRemoteProvider(b, HostUrl, 0) : b \in RemoteIds}
  /\ call = NoProviderCall

\* LocalProvider.createGame
LocalCreateGame(shape) ==
  /\ local.nextLocalId <= MaxLocalGames
  /\ local' = [games |-> PutGame(local.games, local.nextLocalId,
                                 NewEngine("white", RootBoard, shape)),
               nextLocalId |-> local.nextLocalId + 1]
  /\ call' = [SettledNow("local", "createGame", TRUE, "")
                EXCEPT !.out = LocalGameState(local.nextLocalId,
                                              NewEngine("white", RootBoard,
                                                        shape))]
  /\ UNCHANGED <<aiVars, normVars, remote, uiVars>>

\* LocalProvider.deleteGame
LocalDeleteGame(gameId) ==
  /\ local' = [local EXCEPT !.games = DropGame(@, gameId)]
  /\ call' = SettledNow("local", "deleteGame", TRUE, "")
  /\ UNCHANGED <<aiVars, normVars, remote, uiVars>>

\* `Illegal move: ${from}-${to}`; the move id stands for its squares.
IllegalMove(id) ==
  IF id = 1 THEN "Illegal move: 1" ELSE "Illegal move: 2"

\* LocalProvider.makeMove; the engine of the store is the one the call
\* worked on, whether the move was accepted or not.
LocalMakeMove(gameId, id) ==
  /\ IF gameId \notin DOMAIN local.games
       THEN /\ call' = SettledNow("local", "makeMove", FALSE, "Game not found")
            /\ UNCHANGED local
     ELSE LET result == MakeMove(local.games[gameId], id) IN
          IF ~result.ok
            THEN /\ call' = SettledNow("local", "makeMove", FALSE,
                                      IllegalMove(id))
                 /\ local' = [local EXCEPT !.games[gameId] = result.e]
          ELSE /\ call' = [SettledNow("local", "makeMove", TRUE, "")
                         EXCEPT !.out = LocalGameState(gameId, result.e)]
               /\ local' = [local EXCEPT !.games[gameId] = result.e]
  /\ UNCHANGED <<aiVars, normVars, remote, uiVars>>

\* LocalProvider.undoMove
LocalUndoMove(gameId) ==
  /\ IF gameId \notin DOMAIN local.games
       THEN /\ call' = SettledNow("local", "undoMove", FALSE, "Game not found")
            /\ UNCHANGED local
     ELSE LET result == Undo(local.games[gameId]) IN
          IF ~result.ok
            THEN /\ call' = SettledNow("local", "undoMove", FALSE,
                                      "Nothing to undo")
                 /\ local' = [local EXCEPT !.games[gameId] = result.e]
          ELSE /\ call' = [SettledNow("local", "undoMove", TRUE, "")
                         EXCEPT !.out = LocalGameState(gameId, result.e)]
               /\ local' = [local EXCEPT !.games[gameId] = result.e]
  /\ UNCHANGED <<aiVars, normVars, remote, uiVars>>

\* LocalProvider.getAnalysis
LocalGetAnalysis(gameId) ==
  /\ call' = SettledNow("local", "getAnalysis", FALSE,
                          "Analysis not supported in local mode")
  /\ UNCHANGED <<aiVars, normVars, local, remote, uiVars>>

\* LocalProvider.getGame
LocalGetGame(gameId) ==
  /\ call' = IF gameId \notin DOMAIN local.games
               THEN SettledNow("local", "getGame", FALSE, "Game not found")
             ELSE [SettledNow("local", "getGame", TRUE, "")
                     EXCEPT !.out = LocalGameState(gameId,
                                                   local.games[gameId])]
  /\ UNCHANGED <<aiVars, normVars, local, remote, uiVars>>

\* LocalProvider.getPgn: the stub answers '' without looking the game up.
LocalGetPgn(gameId) ==
  /\ call' = SettledNow("local", "getPgn", TRUE, "")
  /\ UNCHANGED <<aiVars, normVars, local, remote, uiVars>>

\* LocalProvider.aiHint that plays the move it found, as aiMove does.
LocalAiHintPlaysMove(gameId, level, rnd) ==
  /\ rnd \in IF gameId \in DOMAIN local.games
               THEN RandomPicks(local.games[gameId]) ELSE {1}
  /\ IF gameId \notin DOMAIN local.games
       THEN /\ call' = SettledNow("local", "aiHint", FALSE, "Game not found")
            /\ UNCHANGED local
     ELSE LET r == ComputeBestMove(local.games[gameId], level, rnd) IN
          IF r.move = NullMove
            THEN /\ call' = SettledNow("local", "aiHint", FALSE,
                                      "No hint available")
                 /\ local' = [local EXCEPT !.games[gameId] = r.e]
          ELSE /\ call' = SettledNow("local", "aiHint", TRUE, "")
               /\ local' = [local EXCEPT
                              !.games[gameId] = MakeMove(r.e, r.move.id).e]
  /\ UNCHANGED <<aiVars, normVars, remote, uiVars>>

\* LocalProvider.aiHint; the engine of the store is the one computeBestMove
\* searched on.
LocalAiHint(gameId, level, rnd) ==
  /\ rnd \in IF gameId \in DOMAIN local.games
               THEN RandomPicks(local.games[gameId]) ELSE {1}
  /\ IF gameId \notin DOMAIN local.games
       THEN /\ call' = SettledNow("local", "aiHint", FALSE, "Game not found")
            /\ UNCHANGED local
     ELSE LET r == ComputeBestMove(local.games[gameId], level, rnd) IN
          /\ call' = IF r.move = NullMove
                       THEN SettledNow("local", "aiHint", FALSE,
                                       "No hint available")
                     ELSE SettledNow("local", "aiHint", TRUE, "")
          /\ local' = [local EXCEPT !.games[gameId] = r.e]
  /\ UNCHANGED <<aiVars, normVars, remote, uiVars>>

\* LocalProvider.aiMove that plays the move on a copy of the stored engine
\* and answers with the copy's state.
LocalAiMoveOnCopy(gameId, level, rnd) ==
  /\ rnd \in IF gameId \in DOMAIN local.games
               THEN RandomPicks(local.games[gameId]) ELSE {1}
  /\ IF gameId \notin DOMAIN local.games
       THEN call' = SettledNow("local", "aiMove", FALSE, "Game not found")
     ELSE \E r \in {ComputeBestMove(local.games[gameId], level, rnd)} :
          \E applied \in {MakeMove(r.e, r.move.id)} :
            call' = IF r.move = NullMove
                      THEN SettledNow("local", "aiMove", FALSE,
                                      "AI could not find a move")
                    ELSE IF ~applied.ok
                      THEN SettledNow("local", "aiMove", FALSE,
                                      "AI move was illegal")
                    ELSE [SettledNow("local", "aiMove", TRUE, "")
                            EXCEPT !.out = LocalGameState(gameId, applied.e),
                                   !.move = MoveOf(r.e.pos, r.move.id)]
  /\ UNCHANGED <<aiVars, normVars, local, remote, uiVars>>

\* LocalProvider.aiMove: computeBestMove searches on the engine of the
\* store, the move it returns is played on that engine, and the call
\* resolves with the move the engine applied and the game after it.
LocalAiMove(gameId, level, rnd) ==
  /\ rnd \in IF gameId \in DOMAIN local.games
               THEN RandomPicks(local.games[gameId]) ELSE {1}
  /\ IF gameId \notin DOMAIN local.games
       THEN /\ call' = SettledNow("local", "aiMove", FALSE, "Game not found")
            /\ UNCHANGED local
     ELSE \E r \in {ComputeBestMove(local.games[gameId], level, rnd)} :
          IF r.move = NullMove
            THEN /\ call' = SettledNow("local", "aiMove", FALSE,
                                      "AI could not find a move")
                 /\ local' = [local EXCEPT !.games[gameId] = r.e]
          ELSE \E applied \in {MakeMove(r.e, r.move.id)} :
               IF ~applied.ok
                 THEN /\ call' = SettledNow("local", "aiMove", FALSE,
                                           "AI move was illegal")
                      /\ local' = [local EXCEPT !.games[gameId] = applied.e]
               ELSE /\ call' = [SettledNow("local", "aiMove", TRUE, "")
                                  EXCEPT !.out = LocalGameState(gameId,
                                                                applied.e),
                                         !.move = MoveOf(r.e.pos, r.move.id)]
                    /\ local' = [local EXCEPT !.games[gameId] = applied.e]
  /\ UNCHANGED <<aiVars, normVars, remote, uiVars>>

\* LocalProvider.dispose
LocalDispose ==
  /\ local' = [local EXCEPT !.games = NoGames]
  /\ call' = SettledNow("local", "dispose", TRUE, "")
  /\ UNCHANGED <<aiVars, normVars, remote, uiVars>>

\* new RemoteProvider(backendId, baseUrl)
RemoteConstruct(backendId, baseUrl) ==
  /\ remote' = NewRemoteProvider(backendId, baseUrl, remote.fetchCount)
  /\ call' = SettledNow("remote", "constructor", TRUE, "")
  /\ UNCHANGED <<aiVars, normVars, local, uiVars>>

\* What fetch can end with: a rejection (network failure), or a response
\* with a status, a content type and a body.  The bodies: the two error
\* shapes of the backends ({error: {code, message}} and {error: 'text',
\* message}), {error: null}, a JSON object with no error field, an empty
\* body, and text that is not JSON.
ResponseBodies ==
  {"errorObject", "errorString", "errorNull", "noError", "empty", "notJson"}
FetchOutcomes ==
  {[kind |-> "reject", status |-> 0, ct |-> "", body |-> ""]}
    \cup [kind : {"response"}, status : {200, 404, 500},
          ct : {"application/json", "text/plain", ""}, body : ResponseBodies]

\* The outcomes the provider operations are driven with: a network failure,
\* an answer and an error answer of the backend.
PlainOutcomes ==
  {o \in FetchOutcomes :
     \/ o.kind = "reject"
     \/ /\ o.ct = "application/json" /\ o.body = "errorObject"
        /\ o.status \in {200, 404}}

\* res.ok
ResOk(res) == res.status \in 200..299

\* How request() ends: resolved, or rejected with an error of some class;
\* an ApiError carries a status, a code and a message.
Ended(ok, error, status, code, message) ==
  [ok |-> ok, error |-> error,
   api |-> [status |-> status, code |-> code, message |-> message]]
ApiError(status, code, message) ==
  Ended(FALSE, "ApiError", status, code, message)

\* request() from the point where fetch settled: how the call ends.
RequestResult(res) ==
  IF res.kind = "reject" THEN Ended(FALSE, "TypeError", 0, "", "")
  ELSE IF res.ct = "text/plain"
    THEN IF ~ResOk(res) THEN ApiError(res.status, "HTTP_ERROR", res.body)
         ELSE Ended(TRUE, "", 0, "", "")
  ELSE IF res.body \in {"empty", "notJson"}
    THEN Ended(FALSE, "SyntaxError", 0, "", "")
  ELSE IF ~ResOk(res)
    THEN CASE res.body = "errorObject" ->
                ApiError(res.status, "error.code", "error.message")
           [] res.body = "errorString" ->
                ApiError(res.status, "error", "message")
           [] res.body = "errorNull" ->
                ApiError(res.status, "undefined", "undefined")
           [] OTHER -> ApiError(res.status, "UNKNOWN", "statusText")
  ELSE Ended(TRUE, "", 0, "", "")

\* RemoteProvider.url(path)
Url(path) == remote.baseUrl \o <<ApiPrefix(remote.backendId)>> \o path

\* request(url, init) as method op calls it: one fetch of the URL with the
\* HTTP method, then the answer or a thrown error.
Request(op, method, url, outcome) ==
  LET r == RequestResult(outcome) IN
  /\ remote.fetchCount < MaxFetch
  /\ remote' = [remote EXCEPT !.fetchCount = @ + 1]
  /\ call' = [SettledNow("remote", op, r.ok, r.error)
                EXCEPT !.api = r.api,
                       !.sent = [method |-> method, url |-> url]]
  /\ UNCHANGED <<aiVars, normVars, local, uiVars>>

\* String(depth) for the depths getAnalysis is called with.
DepthText(depth) ==
  CASE depth = 1 -> "1" [] depth = 2 -> "2" [] depth = 3 -> "3"
    [] OTHER -> "0"

\* RemoteProvider.createGame
RemoteCreateGame(outcome) ==
  Request("createGame", "POST", Url(<<"/games">>), outcome)

\* RemoteProvider.getGame
RemoteGetGame(gameId, outcome) ==
  Request("getGame", "GET", Url(<<"/games/", gameId>>), outcome)

\* RemoteProvider.deleteGame
RemoteDeleteGame(gameId, outcome) ==
  Request("deleteGame", "DELETE", Url(<<"/games/", gameId>>), outcome)

\* RemoteProvider.makeMove
RemoteMakeMove(gameId, outcome) ==
  Request("makeMove", "POST", Url(<<"/games/", gameId, "/moves">>), outcome)

\* RemoteProvider.getLegalMoves; fromSquare "" is the argument left out.
RemoteGetLegalMoves(gameId, fromSquare, outcome) ==
  LET qs == IF fromSquare # "" THEN <<"?from=", fromSquare>> ELSE <<>> IN
  Request("getLegalMoves", "GET",
          Url(<<"/games/", gameId, "/legal-moves">> \o qs), outcome)

\* RemoteProvider.aiMove
RemoteAiMove(gameId, outcome) ==
  Request("aiMove", "POST", Url(<<"/games/", gameId, "/ai-move">>), outcome)

\* RemoteProvider.aiHint
RemoteAiHint(gameId, outcome) ==
  Request("aiHint", "POST", Url(<<"/games/", gameId, "/ai-hint">>), outcome)

\* RemoteProvider.loadFen
RemoteLoadFen(gameId, outcome) ==
  Request("loadFen", "POST", Url(<<"/games/", gameId, "/fen">>), outcome)

\* RemoteProvider.getPgn
RemoteGetPgn(gameId, outcome) ==
  Request("getPgn", "GET", Url(<<"/games/", gameId, "/pgn">>), outcome)

\* RemoteProvider.getAnalysis; depth 0 is the argument left out (and the
\* number 0, which the code treats the same way).
RemoteGetAnalysis(gameId, depth, outcome) ==
  LET qs == IF depth # 0 THEN <<"?depth=", DepthText(depth)>> ELSE <<>> IN
  Request("getAnalysis", "GET",
          Url(<<"/games/", gameId, "/analysis">> \o qs), outcome)

\* RemoteProvider.dispose
RemoteDispose ==
  /\ call' = SettledNow("remote", "dispose", TRUE, "")
  /\ UNCHANGED <<aiVars, normVars, local, remote, uiVars>>

UndoUnsupported(backendId) ==
  CASE backendId = "go" -> "Undo is not supported by the go backend"
    [] backendId = "rust" -> "Undo is not supported by the rust backend"
    [] OTHER -> "Undo is not supported by the js backend"

\* RemoteProvider.undoMove without the capability test.
RemoteUndoMoveAlwaysAsks(gameId, outcome) ==
  Request("undoMove", "POST", Url(<<"/games/", gameId, "/undo">>), outcome)

\* RemoteProvider.undoMove
RemoteUndoMove(gameId, outcome) ==
  IF ~Capabilities(remote.backendId).undo
    THEN /\ call' = SettledNow("remote", "undoMove", FALSE,
                                  UndoUnsupported(remote.backendId))
         /\ UNCHANGED <<aiVars, normVars, local, remote, uiVars>>
  ELSE Request("undoMove", "POST", Url(<<"/games/", gameId, "/undo">>),
               outcome)

NextProvider ==
  \/ \E shape \in StartShapes : LocalCreateGame(shape)
  \/ \E gameId \in 1..MaxLocalGames : LocalDeleteGame(gameId)
  \/ \E gameId \in 1..MaxLocalGames : \E id \in 1..2 : LocalMakeMove(gameId, id)
  \/ \E gameId \in 1..MaxLocalGames : LocalUndoMove(gameId)
  \/ \E gameId \in 1..MaxLocalGames : LocalGetAnalysis(gameId)
  \/ \E gameId \in 1..MaxLocalGames : LocalGetGame(gameId)
  \/ \E gameId \in 1..MaxLocalGames : LocalGetPgn(gameId)
  \/ \E gameId \in 1..MaxLocalGames : \E level \in Levels :
       \E rnd \in 1..2 : LocalAiHint(gameId, level, rnd)
  \/ \E gameId \in 1..MaxLocalGames : \E level \in Levels :
       \E rnd \in 1..2 : LocalAiMove(gameId, level, rnd)
  \/ LocalDispose
  \/ \E backendId \in RemoteIds : RemoteConstruct(backendId, HostUrl)
  \/ \E outcome \in PlainOutcomes : RemoteUndoMove("g1", outcome)
  \/ \E outcome \in PlainOutcomes : RemoteCreateGame(outcome)
  \/ \E outcome \in PlainOutcomes : RemoteMakeMove("g1", outcome)
  \/ \E outcome \in PlainOutcomes : RemoteGetAnalysis("g1", 0, outcome)

SpecProvider == InitProvider /\ [][NextProvider]_vars

(***************************************************************************)
(* SpecRegistry: the game store of LocalProvider under createGame,         *)
(* deleteGame, dispose and registerEngine, the last with any id.           *)
(***************************************************************************)
\* LocalProvider.registerEngine(gameId, engine)
LocalRegisterEngine(gameId, shape) ==
  /\ local' = [local EXCEPT !.games = PutGame(@, gameId,
                                            NewEngine("white", RootBoard,
                                                      shape))]
  /\ call' = SettledNow("local", "registerEngine", TRUE, "")
  /\ UNCHANGED <<aiVars, normVars, remote, uiVars>>

NextRegistry ==
  \/ \E shape \in StartShapes : LocalCreateGame(shape)
  \/ \E gameId \in 1..(MaxLocalGames + 1) : LocalDeleteGame(gameId)
  \/ LocalDispose
  \/ \E gameId \in 1..(MaxLocalGames + 1) : \E shape \in StartShapes :
       LocalRegisterEngine(gameId, shape)

SpecRegistry == InitProvider /\ [][NextRegistry]_vars

(***************************************************************************)
(* SpecRequest: the methods of a RemoteProvider against a backend that can *)
(* answer anything: every status, content type and body.                   *)
(***************************************************************************)
NextRequest ==
  \/ \E backendId \in RemoteIds : RemoteConstruct(backendId, HostUrl)
  \/ \E outcome \in FetchOutcomes : RemoteUndoMove("g1", outcome)
  \/ \E outcome \in FetchOutcomes : RemoteCreateGame(outcome)
  \/ \E outcome \in FetchOutcomes : RemoteMakeMove("g1", outcome)
  \/ \E outcome \in FetchOutcomes : RemoteGetAnalysis("g1", 0, outcome)

SpecRequest == InitProvider /\ [][NextRequest]_vars

(***************************************************************************)
(* SpecUrl: every method of a RemoteProvider, built for any backend with   *)
(* any of the base URLs, called with any game id and optional argument.    *)
(***************************************************************************)
GameIds == {"g1", "g2"}

NextUrl ==
  \/ \E backendId \in RemoteIds : \E baseUrl \in BaseUrls :
       RemoteConstruct(backendId, baseUrl)
  \/ \E outcome \in PlainOutcomes : RemoteCreateGame(outcome)
  \/ \E gameId \in GameIds : \E outcome \in PlainOutcomes :
       RemoteGetGame(gameId, outcome)
  \/ \E gameId \in GameIds : \E outcome \in PlainOutcomes :
       RemoteDeleteGame(gameId, outcome)
  \/ \E gameId \in GameIds : \E outcome \in PlainOutcomes :
       RemoteMakeMove(gameId, outcome)
  \/ \E gameId \in GameIds : \E outcome \in PlainOutcomes :
       RemoteUndoMove(gameId, outcome)
  \/ \E gameId \in GameIds : \E fromSquare \in {"", "e2"} :
       \E outcome \in PlainOutcomes :
         RemoteGetLegalMoves(gameId, fromSquare, outcome)
  \/ \E gameId \in GameIds : \E outcome \in PlainOutcomes :
       RemoteAiMove(gameId, outcome)
  \/ \E gameId \in GameIds : \E outcome \in PlainOutcomes :
       RemoteAiHint(gameId, outcome)
  \/ \E gameId \in GameIds : \E outcome \in PlainOutcomes :
       RemoteLoadFen(gameId, outcome)
  \/ \E gameId \in GameIds : \E outcome \in PlainOutcomes :
       RemoteGetPgn(gameId, outcome)
  \/ \E gameId \in GameIds : \E depth \in {0, 2} :
       \E outcome \in PlainOutcomes :
         RemoteGetAnalysis(gameId, depth, outcome)
  \/ RemoteDispose

SpecUrl == InitProvider /\ [][NextUrl]_vars

(***************************************************************************)
(* SpecSelector: a consumer of the backend context switches backends, sets *)
(* URLs and retries the health check, while health checks settle.          *)
(***************************************************************************)
InitSelector ==
  /\ engine = NewEngine("white", RootBoard, Leaf("stalemate"))
  /\ aiOut = NoCall
  /\ NormIdle /\ ProvIdle
  /\ sel \in {MountedSelector(b) : b \in BackendIds}
  /\ app = MountedSession("local", TRUE, "white").app

\* switchBackend(id, customUrl)
SwitchBackend(id, customUrl) ==
  /\ SelectorRoom(sel)
  /\ sel' = SwitchBackendOn(sel, id, customUrl)
  /\ UNCHANGED <<aiVars, normVars, provVars, app>>

\* setBackendUrl(id, url)
SetBackendUrl(id, url) ==
  /\ SelectorRoom(sel)
  /\ sel' = SetBackendUrlOn(sel, id, url)
  /\ UNCHANGED <<aiVars, normVars, provVars, app>>

\* checkConnection() called by a consumer (the Retry button)
CheckConnection ==
  /\ SelectorRoom(sel)
  /\ sel' = CheckConnectionStart(sel)
  /\ UNCHANGED <<aiVars, normVars, provVars, app>>

\* The fetch of a health check settles and checkConnection runs to its end.
HealthCompletes(i, outcome) ==
  /\ i \in 1..Len(sel.health)
  /\ sel' = CheckConnectionEnd(sel, i, outcome)
  /\ UNCHANGED <<aiVars, normVars, provVars, app>>

NextSelector ==
  \/ \E id \in BackendIds : \E url \in Urls \cup {NoUrl} : SwitchBackend(id, url)
  \/ \E id \in RemoteIds : \E url \in Urls : SetBackendUrl(id, url)
  \/ CheckConnection
  \/ \E i \in 1..MaxHealth : \E outcome \in HealthOutcomes :
       HealthCompletes(i, outcome)

SpecSelector == InitSelector /\ [][NextSelector]_vars

(***************************************************************************)
(* SpecPersist: the selector over localStorage and the environment of the  *)
(* build: backend switches and URL changes, and restarts of the            *)
(* application (a reload of the page) that start it from what was saved.   *)
(***************************************************************************)
InitPersist ==
  /\ engine = NewEngine("white", RootBoard, Leaf("stalemate"))
  /\ aiOut = NoCall
  /\ NormIdle /\ ProvIdle
  /\ sel \in {Mount(Startup(EmptyStorage, env)) : env \in Envs}
  /\ app = MountedSession("local", TRUE, "white").app

\* The page is loaded again: BackendProvider mounts over the storage the
\* last run left.
Restart ==
  /\ sel' = Mount(Startup(sel.storage, sel.env))
  /\ UNCHANGED <<aiVars, normVars, provVars, app>>

NextPersist ==
  \/ \E id \in BackendIds : \E url \in Urls \cup {NoUrl} : SwitchBackend(id, url)
  \/ \E id \in RemoteIds : \E url \in Urls : SetBackendUrl(id, url)
  \/ \E i \in 1..MaxHealth : \E outcome \in HealthOutcomes :
       HealthCompletes(i, outcome)
  \/ Restart

SpecPersist == InitPersist /\ [][NextPersist]_vars

\* Every health check that is in flight settles: its fetch answers, fails
\* or is aborted by AbortSignal.timeout(5000).
SpecSelectorFair ==
  SpecSelector
    /\ WF_vars(\E i \in 1..MaxHealth : \E outcome \in HealthOutcomes :
                 HealthCompletes(i, outcome))

(***************************************************************************)
(* SpecSession: a user plays, navigates, starts new games, switches the    *)
(* backend and edits its URL while provider answers arrive and the AI's    *)
(* delay runs out.  The session reads backendId and provider from the      *)
(* context; the health checks its switches start stay in flight here, how  *)
(* they settle is SpecSelector's matter.                                   *)
(***************************************************************************)
InitSession ==
  /\ engine = NewEngine("white", RootBoard, Leaf("stalemate"))
  /\ aiOut = NoCall
  /\ NormIdle /\ ProvIdle
  /\ \E b \in BackendIds, ai \in BOOLEAN, c \in Color :
       LET w == MountedSession(b, ai, c)
       IN sel = w.sel /\ app = w.app

\* The world a handler starts from.
Now == World(sel, app)

\* A handler took the world to w: the renders that follow it, and the state.
Handled(w) ==
  LET done == Render(Now, w) IN
  /\ ~done.over
  /\ sel' = done.sel
  /\ app' = done.app
  /\ UNCHANGED <<aiVars, normVars, provVars>>

NewGameColor(a) == IF a.aiEnabled THEN "white" ELSE a.playerColor

\* makeMove(from, to) by the user, from a click on the board.
UserMove ==
  /\ ~(app.aiEnabled /\ Turn(app) # app.playerColor)
  /\ app.len < MaxPly
  /\ Handled(RemoteSync([Now EXCEPT !.app.len = @ + 1], "makeMove"))

\* undoMove(), the Undo button.
UndoClick ==
  /\ app.len > 0
  /\ Capabilities(sel.backendId).undo
  /\ Handled(RemoteSync(Supersede([Now EXCEPT !.app.len = @ - 1]), "undoMove"))

\* goToPly(plyIndex): the engine is reset to the standard start and the
\* first plyIndex moves are replayed; the moves of a game that began from
\* another position need not all be accepted there (n of them are).
SelectPly(plyIndex, n) ==
  /\ plyIndex \in 0..app.len
  /\ n \in 0..plyIndex
  /\ (app.turn0 = "white" /\ app.fen = "start") => n = plyIndex
  /\ LET w == [Now EXCEPT !.app.turn0 = "white", !.app.fen = "start",
                          !.app.len = n]
     IN Handled(IF <<w.app.turn0, w.app.fen, w.app.len>>
                      = <<app.turn0, app.fen, app.len>>
                  THEN w ELSE Supersede(w))

\* loadFEN(fen) with a position where turn is to move.
LoadFEN(turn) ==
  Handled(RemoteSync(Supersede([Now EXCEPT !.app.turn0 = turn, !.app.len = 0,
                                           !.app.fen = "custom"]),
                     "loadFen"))

\* The New Game button.
NewGame ==
  Handled(ResetGame(Now, NewGameColor(app), IsRemote(Now), sel.inst))

\* handleAiToggle
AiToggle ==
  LET w == [Now EXCEPT !.app.aiEnabled = ~@] IN
  Handled(ResetGame(w, NewGameColor(w.app), IsRemote(Now), sel.inst))

\* handlePlayerColorChange(color)
PlayerColorChange(color) ==
  /\ color # app.playerColor
  /\ LET w == [Now EXCEPT !.app.playerColor = color] IN
     Handled(ResetGame(w, NewGameColor(w.app), IsRemote(Now), sel.inst))

\* onChange of the backend select: switchBackend(id), then resetGame as the
\* render before the switch built it.
BackendSelectChange(id) ==
  /\ id # sel.backendId
  /\ sel.inst < MaxInst
  /\ Handled(ResetGame([Now EXCEPT !.sel = SwitchBackendOn(sel, id, NoUrl)],
                       NewGameColor(app), IsRemote(Now), sel.inst))

\* onChange of the URL input: setBackendUrl(backendId, url).
UrlInputChange(url) ==
  /\ sel.backendId \in {"rust", "go"}
  /\ sel.inst < MaxInst
  /\ Handled([Now EXCEPT !.sel = SetBackendUrlOn(sel, sel.backendId, url)])

\* The answer handling with a roll-back: a failed makeMove takes the
\* optimistic move back.
ResponseArrivesRollsBack(r, ok) ==
  /\ r \in app.pending
  /\ LET w == [Now EXCEPT !.app.pending = @ \ {r}] IN
     Handled(IF r.op = "createGame"
               THEN IF ok THEN [ApplyRemoteState(w, r)
                                  EXCEPT !.app.loading = FALSE]
                    ELSE [w EXCEPT !.app.error = "failed",
                                   !.app.loading = FALSE]
             ELSE IF ok THEN BackendServed(w, r)
             ELSE [w EXCEPT !.app.error = "failed",
                            !.app.len = IF r.op = "makeMove" /\ @ > 0
                                          THEN @ - 1 ELSE @])

\* The promise of the pending request r settles.
ResponseArrives(r, ok) ==
  /\ r \in app.pending
  /\ LET w == [Now EXCEPT !.app.pending = @ \ {r}] IN
     Handled(IF r.op = "createGame"
               THEN IF ok THEN [ApplyRemoteState(w, r)
                                  EXCEPT !.app.loading = FALSE]
                    ELSE [w EXCEPT !.app.error = "failed",
                                   !.app.loading = FALSE]
             ELSE IF ok THEN BackendServed(w, r)
             ELSE [w EXCEPT !.app.error = "failed"])

\* The delay of the live think runs out: cancelled is false, so it asks
\* ChessAI for a move and plays it through makeMove.  A think whose effect
\* was cleaned up finds cancelled true and returns.
ThinkFires ==
  /\ app.think = "live"
  /\ LET w == [Now EXCEPT !.app.think = "none", !.app.superseded = FALSE,
                          !.app.liveThinks = @ - 1] IN
     Handled(IF app.len < MaxPly
               THEN RemoteSync([w EXCEPT !.app.len = @ + 1], "makeMove")
             ELSE w)

NextSession ==
  \/ UserMove
  \/ UndoClick
  \/ \E plyIndex \in 0..MaxPly : \E n \in 0..MaxPly : SelectPly(plyIndex, n)
  \/ \E turn \in Color : LoadFEN(turn)
  \/ NewGame
  \/ AiToggle
  \/ \E color \in Color : PlayerColorChange(color)
  \/ \E id \in BackendIds : BackendSelectChange(id)
  \/ \E url \in Urls : UrlInputChange(url)
  \/ \E r \in app.pending : \E ok \in BOOLEAN : ResponseArrives(r, ok)
  \/ ThinkFires

SpecSession == InitSession /\ [][NextSession]_vars

(***************************************************************************)
(* SpecGame: the game hook (useChessBackendGame, backend local) over the   *)
(* rules engine, with the AI effect of App.  Here app is the hook's state: *)
(* the values updateGameState copies from the engine (turn, status,        *)
(* history), the values memoised over the engine object (memo), the        *)
(* pending promotion (0: none, else the move), the AI's settings and its   *)
(* think, and userActs, the number of user actions so far.  SpecGameFair   *)
(* adds that a think whose delay runs out does run.                        *)
(***************************************************************************)
\* The positions of the games played: one where the only move is a
\* promotion that mates, one where the only move allows mate in one, one
\* where a pawn can be taken to a draw or mate be given.
PromotionShape == Node("active", <<PromotionEdge(Leaf("checkmate"))>>)
LostShape ==
  Node("active",
       <<Edge(NoPiece, TRUE,
              Node("check", <<Edge(NoPiece, TRUE, Leaf("checkmate"))>>))>>)
OpenShape ==
  Node("active", <<Edge("pawn", TRUE, Leaf("stalemate")),
                   Edge(NoPiece, TRUE, Leaf("checkmate"))>>)

\* The start position: a move to each of the three.
StandardShape ==
  Node("active", <<Edge(NoPiece, TRUE, PromotionShape),
                   Edge(NoPiece, TRUE, LostShape),
                   Edge(NoPiece, TRUE, OpenShape)>>)

\* The positions loadFEN is called with.
FenShapes == {PromotionShape, LostShape, OpenShape, Leaf("checkmate")}

\* target.promotion && target.piece.type === 'pawn' for the listed move id
Promotes(e, id) ==
  id \in 1..Len(e.pos.shape.moves) /\ e.pos.shape.moves[id].promo

\* The useMemo values whose only dependency is the engine object: computed
\* when the hook mounts.
Memo(e) ==
  [isGameOver |-> IsGameOver(e), isCheck |-> IsInCheck(e),
   result |-> GetResult(e), finalResult |-> GetResult(e)]

\* updateGameState
UpdateGameState(h, e) ==
  [h EXCEPT !.turn = GetTurn(e), !.status = GetStatus(e),
            !.history = GetHistory(e)]

\* The hook's state after its first render over engine e.
NewGameHook(e, aiEnabled, playerColor, level) ==
  [turn |-> GetTurn(e), status |-> GetStatus(e), history |-> GetHistory(e),
   memo |-> Memo(e), pendingPromotion |-> 0,
   aiEnabled |-> aiEnabled, playerColor |-> playerColor, level |-> level,
   think |-> "none", userActs |-> 0]

\* The dependencies of App's AI effect that can change in local mode (the
\* engine object and makeMove keep their identity).
GameAIDeps(h) ==
  <<h.turn, h.aiEnabled, h.memo.isGameOver, h.playerColor, h.level,
    Len(h.history)>>

\* App's AI effect after a render: when a dependency changed (or on mount)
\* the think that waits is cancelled and, on the AI's turn, one is started.
GameAIEffect(old, h, mount) ==
  IF ~mount /\ GameAIDeps(old) = GameAIDeps(h) THEN h
  ELSE [h EXCEPT !.think = IF /\ h.aiEnabled /\ ~h.memo.isGameOver
                              /\ h.turn # h.playerColor
                             THEN "live" ELSE "none"]

\* makeMove(from, to, promotion) of the hook on the listed move id; chosen
\* says that a promotion piece was passed.  The result is the engine and
\* the hook's state.
HookMakeMove(e, h, id, chosen) ==
  IF ~chosen /\ Promotes(e, id)
    THEN [e |-> e, h |-> [h EXCEPT !.pendingPromotion = id], moved |-> FALSE]
  ELSE LET move == MakeMove(e, id) IN
       IF ~move.ok THEN [e |-> e, h |-> h, moved |-> FALSE]
       ELSE [e |-> move.e,
             h |-> [UpdateGameState(h, move.e) EXCEPT !.pendingPromotion = 0],
             moved |-> TRUE]

\* The engine after reset() and the first k moves of a history replayed.
RECURSIVE ReplayMoves(_, _, _, _)
ReplayMoves(e, full, i, k) ==
  IF i > k THEN e
  ELSE ReplayMoves(MakeMove(e, full[i].id).e, full, i + 1, k)

\* A handler of the hook ended with engine e and state h: the render and
\* the AI effect that follow.
GameHandled(e, h) ==
  /\ engine' = e
  /\ app' = GameAIEffect(app, h, FALSE)
  /\ UNCHANGED <<aiOut, normVars, provVars, sel>>

UserActed(h) == [h EXCEPT !.userActs = @ + 1]

InitGame ==
  /\ engine = NewEngine("white", RootBoard, StandardShape)
  /\ aiOut = NoCall
  /\ NormIdle /\ ProvIdle
  /\ sel = MountedSelector("local")
  /\ \E aiEnabled \in BOOLEAN, playerColor \in Color,
        level \in {"random", "easy", "medium"} :
       LET h == NewGameHook(engine, aiEnabled, playerColor, level)
       IN app = GameAIEffect(h, h, TRUE)

\* The user drops a piece: selectSquare calls makeMove(from, to).
GameUserMove(id) ==
  /\ app.userActs < MaxUserActs
  /\ ~(app.aiEnabled /\ app.turn # app.playerColor)
  /\ id \in 1..Len(GetLegalMoves(engine))
  /\ LET r == HookMakeMove(engine, app, id, FALSE)
     IN GameHandled(r.e, UserActed(r.h))

\* The user picks a piece in the promotion dialog.
GamePromotionSelect ==
  /\ app.userActs < MaxUserActs
  /\ app.pendingPromotion # 0
  /\ LET r == HookMakeMove(engine, app, app.pendingPromotion, TRUE)
     IN GameHandled(r.e, UserActed(r.h))

\* undoMove
GameUndoMove ==
  /\ app.userActs < MaxUserActs
  /\ LET u == Undo(engine)
     IN GameHandled(u.e, UserActed(IF u.ok THEN UpdateGameState(app, u.e)
                                   ELSE app))

\* resetGame(startingColor)
GameResetGame(startingColor) ==
  /\ app.userActs < MaxUserActs
  /\ LET e == NewEngine(startingColor, RootBoard, StandardShape)
     IN GameHandled(e, UserActed(UpdateGameState(app, e)))

\* loadFEN(fen)
GameLoadFEN(turn, shape) ==
  /\ app.userActs < MaxUserActs
  /\ LET e == NewEngine(turn, RootBoard, shape)
     IN GameHandled(e, UserActed(UpdateGameState(app, e)))

\* goToPly(plyIndex)
GameGoToPly(plyIndex) ==
  /\ app.userActs < MaxUserActs
  /\ IF plyIndex < 0 \/ plyIndex > Len(app.history)
       THEN GameHandled(engine, UserActed(app))
     ELSE LET e == ReplayMoves(NewEngine("white", RootBoard, StandardShape),
                               app.history, 1, plyIndex)
          IN GameHandled(e, UserActed(UpdateGameState(app, e)))

\* Every position a game of the hook can be on.
RECURSIVE PositionsBelow(_)
PositionsBelow(pos) ==
  LET e == [pos |-> pos, hist |-> <<>>] IN
  {pos} \cup UNION {PositionsBelow(MakeMove(e, i).e.pos) :
                      i \in {j \in 1..Len(pos.shape.moves) :
                               MakeMove(e, j).ok}}
GamePositions ==
  UNION {PositionsBelow(NewEngine(turn, RootBoard, shape).pos) :
           turn \in Color, shape \in FenShapes \cup {StandardShape}}

\* The move computeBestMove returns at the searching tiers, per position:
\* the search leaves the engine as it found it, so the move depends on the
\* position and the tier only.
SearchedMove ==
  [pos \in GamePositions, level \in {"easy", "medium"} |->
     ComputeBestMove([pos |-> pos, hist |-> <<>>], level, 1).move]

\* ChessAI.computeBestMove(engine, aiDifficulty) as the think calls it.
ThinkBestMove(e, level, rnd) ==
  IF DepthForLevel(level) = 0
    THEN IF Len(GetLegalMoves(e)) = 0 THEN NullMove
         ELSE GetLegalMoves(e)[rnd]
  ELSE SearchedMove[e.pos, level]

\* The delay of a think runs out: computeBestMove, then makeMove(from, to)
\* when it found a move.
GameThinkFires ==
  /\ app.think = "live"
  /\ \E rnd \in RandomPicks(engine) :
       LET move == ThinkBestMove(engine, app.level, rnd)
           done == [app EXCEPT !.think = "none"]
       IN IF move = NullMove THEN GameHandled(engine, done)
          ELSE LET r == HookMakeMove(engine, done, move.id, FALSE)
               IN GameHandled(r.e, r.h)

NextGame ==
  \/ \E id \in 1..3 : GameUserMove(id)
  \/ GamePromotionSelect
  \/ GameUndoMove
  \/ \E startingColor \in Color : GameResetGame(startingColor)
  \/ \E turn \in Color : \E shape \in FenShapes : GameLoadFEN(turn, shape)
  \/ \E plyIndex \in 0..3 : GameGoToPly(plyIndex)
  \/ GameThinkFires

SpecGame == InitGame /\ [][NextGame]_vars

\* Timers fire: a think that waits does run.
SpecGameFair == SpecGame /\ WF_vars(GameThinkFires)

(***************************************************************************)
(* SpecAI: an engine positioned anywhere in a game tree, a caller that     *)
(* plays and takes back moves and asks ChessAI for a move at every tier.   *)
(***************************************************************************)
InitAI ==
  /\ engine \in {NewEngine("white", RootBoard, s) : s \in RootShapes}
                  \cup {NewEngine("white", FullBoard, OrderShape)}
  /\ aiOut = NoCall
  /\ NormIdle /\ ProvIdle /\ UiIdle

\* The caller plays a legal move on the engine.
AIPlay(id) ==
  /\ MakeMove(engine, id).ok
  /\ engine' = MakeMove(engine, id).e
  /\ aiOut' = NoCall
  /\ UNCHANGED <<normVars, provVars, uiVars>>

\* The caller takes the last move back.
AITakeBack ==
  /\ Undo(engine).ok
  /\ engine' = Undo(engine).e
  /\ aiOut' = NoCall
  /\ UNCHANGED <<normVars, provVars, uiVars>>

\* The caller is done with what the last call returned.
AIForget ==
  /\ aiOut.called
  /\ aiOut' = NoCall
  /\ UNCHANGED <<engine, normVars, provVars, uiVars>>

\* One call of ChessAI.computeBestMove(engine, level).
AICompute(level, rnd) ==
  LET r == ComputeBestMove(engine, level, rnd) IN
  /\ ~aiOut.called
  /\ engine' = r.e
  /\ aiOut' = [called |-> TRUE, level |-> level, pre |-> engine,
               move |-> r.move, makes |-> r.makes, undos |-> r.undos,
               cuts |-> r.cuts, bal |-> r.bal, scores |-> r.scores,
               depth |-> r.depth, ordered |-> r.ordered]
  /\ UNCHANGED <<normVars, provVars, uiVars>>

NextAI ==
  \/ \E id \in 1..2 : AIPlay(id)
  \/ AITakeBack
  \/ AIForget
  \/ \E level \in Levels : \E rnd \in RandomPicks(engine) : AICompute(level, rnd)

SpecAI == InitAI /\ [][NextAI]_vars

\* ---------------------------------------------------------------------------
\* Properties of computeBestMove (specification SpecAI)

\* C1: computeBestMove leaves the engine as it found it (position, side to
\* move and history), every accepted makeMove of the search is followed by
\* exactly one undo before its frame goes on or returns, cut-off paths
\* included, and a rejected candidate is never undone.
C1_SearchRestoresEngine ==
  aiOut.called =>
    /\ engine = aiOut.pre
    /\ aiOut.makes = aiOut.undos
    /\ aiOut.bal

\* C1 happens: a search two plies deep or more, on an engine with moves
\* already played, met a rejected candidate at the root and a cut-off below.
C1_Witness ==
  /\ aiOut.called
  /\ DepthForLevel(aiOut.level) >= 2
  /\ Len(GetHistory(aiOut.pre)) >= 1
  /\ aiOut.cuts >= 1
  /\ Len(aiOut.scores) >= 1
  /\ Len(aiOut.scores) < Len(GetLegalMoves(aiOut.pre))
  /\ engine = aiOut.pre

\* C2: at search depth 1 or more, when the engine accepted at least one root
\* candidate the call returns one of the accepted candidates whose score is
\* the largest, also when every candidate scores minus infinity.
C2_ReturnsBestAccepted ==
  (aiOut.called /\ DepthForLevel(aiOut.level) >= 1 /\ Len(aiOut.scores) >= 1)
    => \E i \in 1..Len(aiOut.scores) :
         /\ aiOut.scores[i].move = aiOut.move
         /\ \A j \in 1..Len(aiOut.scores) :
              aiOut.scores[j].score <= aiOut.scores[i].score

\* C3: on a position without legal moves computeBestMove returns null at
\* every tier, and calls neither makeMove nor undo.
C3_NoMovesGivesNull ==
  (aiOut.called /\ Len(GetLegalMoves(aiOut.pre)) = 0)
    => /\ aiOut.move = NullMove
       /\ aiOut.makes = 0
       /\ aiOut.undos = 0
       /\ engine = aiOut.pre

\* C3 happens: a searching tier was asked on a position that has no moves,
\* reached by playing into it.
C3_Witness ==
  /\ aiOut.called
  /\ aiOut.level = "godlike"
  /\ Len(GetLegalMoves(aiOut.pre)) = 0
  /\ Len(GetHistory(aiOut.pre)) >= 1
  /\ aiOut.move = NullMove

\* C18: at the tiers of depth 0 (harmless, random, any unknown name), on a
\* position that has legal moves, computeBestMove returns one of the legal
\* moves the engine listed when it was called, and calls neither makeMove
\* nor undo.
C18_RandomTierPicksLegalMove ==
  (aiOut.called /\ DepthForLevel(aiOut.level) = 0
     /\ Len(GetLegalMoves(aiOut.pre)) >= 1)
    => /\ \E i \in DOMAIN GetLegalMoves(aiOut.pre) :
            aiOut.move = GetLegalMoves(aiOut.pre)[i]
       /\ aiOut.makes = 0
       /\ aiOut.undos = 0
       /\ engine = aiOut.pre

\* C18 happens: an unknown tier name picked the second of two legal moves
\* on a position reached by playing into it.
C18_Witness ==
  /\ aiOut.called
  /\ aiOut.level = "bogus"
  /\ Len(GetLegalMoves(aiOut.pre)) = 2
  /\ aiOut.move = GetLegalMoves(aiOut.pre)[2]
  /\ Len(GetHistory(aiOut.pre)) >= 1


\* C23: the depth a call searches with is the nominal depth of its tier, but
\* 3 when the position has more than 60 legal moves and the nominal depth is
\* above 3; the clamp is decided anew by every call.
C23_EffectiveDepth ==
  (aiOut.called /\ DepthForLevel(aiOut.level) >= 1)
    => aiOut.depth =
         IF Len(GetLegalMoves(aiOut.pre)) > 60
              /\ aiOut.level \in {"expert", "godlike"}
           THEN 3
         ELSE CASE aiOut.level = "easy" -> 1
                [] aiOut.level = "medium" -> 2
                [] aiOut.level = "hard" -> 3
                [] aiOut.level = "expert" -> 4
                [] OTHER -> 5

\* C23 happens: a godlike call on a position with 61 legal moves, all of
\* which the engine accepted, searched three plies deep.
C23_Witness ==
  /\ aiOut.called
  /\ aiOut.level = "godlike"
  /\ Len(GetLegalMoves(aiOut.pre)) = 61
  /\ aiOut.depth = 3
  /\ Len(aiOut.scores) = 61


\* Minimax without pruning: the value, to the given depth, of the position
\* engine e is on.  A node maximizes when the side to move is
\* maximizingColor and minimizes otherwise, over the moves the engine
\* accepts; a position at depth 0, a finished game and a position without
\* legal moves are scored by the evaluation.
RECURSIVE PlainMinimax(_, _, _)
PlainMinimax(e, depth, maximizingColor) ==
  IF depth = 0 \/ IsGameOver(e) \/ Len(GetLegalMoves(e)) = 0
    THEN Evaluate(e, maximizingColor)
  ELSE
    LET legalMoves == GetLegalMoves(e)
        accepted == {i \in 1..Len(legalMoves) :
                       MakeMove(e, legalMoves[i].id).ok}
        below == {PlainMinimax(MakeMove(e, legalMoves[i].id).e, depth - 1,
                               maximizingColor) : i \in accepted}
    IN IF GetTurn(e) = maximizingColor
         THEN IF below = {} THEN 0 - Infinity
              ELSE CHOOSE v \in below : \A u \in below : u <= v
       ELSE IF below = {} THEN Infinity
            ELSE CHOOSE v \in below : \A u \in below : v <= u

\* The plain value of the i-th root candidate of the last computeBestMove.
PlainScore(i) ==
  PlainMinimax(MakeMove(aiOut.pre, aiOut.scores[i].move.id).e,
               aiOut.depth - 1, GetTurn(aiOut.pre))

\* C26: the score the alpha-beta search gives each root move is the plain
\* minimax value, to one less than the effective depth, of the position
\* after that move, and the move it returns is the one the same loop picks
\* from the plain values: the first candidate whose value is above every
\* earlier one's and not below any later one's.
C26_PruningKeepsRootScores ==
  (aiOut.called /\ DepthForLevel(aiOut.level) >= 1)
  => /\ \A i \in 1..Len(aiOut.scores) : aiOut.scores[i].score = PlainScore(i)
     /\ LET first == {i \in 1..Len(aiOut.scores) :
                        /\ PlainScore(i) > 0 - Infinity
                        /\ \A j \in 1..(i - 1) : PlainScore(j) < PlainScore(i)
                        /\ \A j \in (i + 1)..Len(aiOut.scores) :
                             PlainScore(j) <= PlainScore(i)}
        IN IF first = {} THEN aiOut.move = NullMove
           ELSE \E i \in first : aiOut.move = aiOut.scores[i].move

\* C26 happens: a search to depth 3 cut a branch off on a finite score and
\* scored the first root move with the pawn it wins and the second with 0.
C26_Witness ==
  /\ aiOut.called /\ aiOut.level = "hard" /\ aiOut.depth = 3
  /\ aiOut.pre.pos.shape = PruneShape
  /\ aiOut.cuts > 0
  /\ Len(aiOut.scores) = 2
  /\ aiOut.scores[1].score = 100 /\ aiOut.scores[2].score = 0
  /\ aiOut.move.id = 1


\* ---------------------------------------------------------------------------
\* Properties of the adapters (specification SpecNorm)

\* C4: every NormGameState the provider layer produces (rustNormGame,
\* goNormGame, jsNormGame on any raw answer, and the local gameToNorm) has
\* gameOver true exactly when its result is not "*".
C4_GameOverIffResult ==
  norm.adapter # "none" => (norm.out.gameOver <=> norm.out.result # "*")

\* C5: every NormGameState an adapter produces (rust, go, js, on any raw
\* answer) has gameOver true exactly when its normalised status is one of
\* the terminal statuses.
C5_GameOverIffTerminalStatus ==
  norm.adapter \in {"rust", "go", "js"}
    => (norm.out.gameOver <=> norm.out.status \in TerminalStatuses)

\* ---------------------------------------------------------------------------
\* Properties of the providers (specification SpecProvider)

\* C6: an operation whose capability flag is false is rejected with a
\* descriptive error and without side effect: RemoteProvider.undoMove on a
\* backend without undo makes no fetch call, LocalProvider.getAnalysis
\* always rejects and leaves the stored games as they were.
C6_UnsupportedRejectedWithoutEffect ==
  /\ (call.target = "remote" /\ call.op = "undoMove"
        /\ ~Capabilities(remote.backendId).undo)
       => /\ ~call.ok
          /\ call.error = UndoUnsupported(remote.backendId)
          /\ remote.fetchCount = call.fetchBefore
          /\ local.games = call.gamesBefore
  /\ (call.target = "local" /\ call.op = "getAnalysis")
       => /\ ~Capabilities("local").analysis
          /\ ~call.ok
          /\ call.error = "Analysis not supported in local mode"
          /\ local.games = call.gamesBefore
          /\ remote.fetchCount = call.fetchBefore

\* C6 happens: undoMove was called on the go provider before any fetch was
\* made, while the local provider holds a game.
C6_Witness ==
  /\ call.target = "remote" /\ call.op = "undoMove"
  /\ remote.backendId = "go" /\ remote.fetchCount = 0 /\ ~call.ok
  /\ DOMAIN local.games # {}

\* ---------------------------------------------------------------------------
\* Properties of the backend selector (specifications SpecSelector and
\* SpecSelectorFair)

\* The connection status the context exposes: connected is true, false or
\* null ("null = checking").
ConnectionStatus(s) ==
  CASE s.connected = "true" -> "Connected"
    [] s.connected = "false" -> "Disconnected"
    [] OTHER -> "Checking"

\* C9: whenever the active backend is local the connection status is
\* Connected, whatever the interleaving of switchBackend, checkConnection
\* and the completions of health checks started for an earlier backend.
C9_LocalIsConnected ==
  sel.backendId = "local" => ConnectionStatus(sel) = "Connected"

\* C10: after a switchBackend call for a remote backend (also one that names
\* the active backend and gives no URL) the status is Checking, a health
\* check is started for it, and, every health check settling, the status
\* becomes Connected or Disconnected: it never stays Checking for ever.
C10_CheckingResolves ==
  (sel.backendId \in {"rust", "go"} /\ ConnectionStatus(sel) = "Checking")
    ~> (ConnectionStatus(sel) \in {"Connected", "Disconnected"})

\* C20: in every state of the selector the provider instance is the variant
\* of the selected backend: its backendId is the active backend id and its
\* capabilities are the ones declared for that backend.
C20_ProviderMatchesBackend ==
  /\ Provider(sel).backendId = sel.backendId
  /\ Provider(sel).capabilities = Capabilities(sel.backendId)


\* C21: when the provider instance is replaced (a backend switch, a changed
\* URL override), dispose() has been called on every instance that is no
\* longer the active one.
C21_OldProviderIsDisposed ==
  \A i \in 1..(sel.inst - 1) : i \in sel.disposed


C7_SwitchIsAtomic ==
  /\ [](app.remoteGameId # NoGameId => app.remoteGameId.inst = sel.inst)
  /\ [][\A r \in app.pending :
          (ResponseArrives(r, TRUE) /\ r.inst # sel.inst)
            => <<app'.turn0, app'.len, app'.fen, app'.remoteGameId>>
                 = <<app.turn0, app.len, app.fen, app.remoteGameId>>]_vars

\* C8: a think that is waiting for its delay when a new game, a position
\* change (undo, ply navigation, FEN load, applied remote state) or a
\* backend switch happens never commits a move.
C8_SupersededThinkNeverCommits ==
  [][(ThinkFires /\ app'.len = app.len + 1) => ~app.superseded]_vars


\* C11: a session has at most one makeMove request in flight: a move is
\* sent to the provider only when no earlier move request is outstanding.
C11_OneMoveInFlight ==
  Cardinality({r \in app.pending : r.op = "makeMove"}) <= 1


\* C17: the status normalisation of the rust and go adapters is total: a
\* documented status gives its canonical status (rust: the eight canonical
\* names unchanged; go: in_progress gives active, white_wins and black_wins
\* give checkmate, the others are unchanged), and any other or missing
\* status gives 'active' with gameOver false and result '*'.
C17_StatusNormalizationIsTotal ==
  /\ norm.adapter = "rust" =>
       IF norm.raw.status \in NormStatuses
         THEN norm.out.status = norm.raw.status
       ELSE /\ norm.out.status = "active"
            /\ ~norm.out.gameOver
            /\ norm.out.result = "*"
  /\ norm.adapter = "go" =>
       CASE norm.raw.status = "in_progress" -> norm.out.status = "active"
         [] norm.raw.status \in {"white_wins", "black_wins"} ->
              norm.out.status = "checkmate"
         [] norm.raw.status \in {"check"} \cup DrawStatuses ->
              norm.out.status = norm.raw.status
         [] OTHER -> /\ norm.out.status = "active"
                     /\ ~norm.out.gameOver
                     /\ norm.out.result = "*"


\* ---------------------------------------------------------------------------
\* Properties of LocalProvider's moves (specification SpecProvider)

C14_UnknownGameIsRejected ==
  [][\A g \in 1..MaxLocalGames :
       (/\ g \notin DOMAIN local.games
        /\ \/ LocalGetGame(g)
           \/ LocalDeleteGame(g)
           \/ \E id \in 1..2 : LocalMakeMove(g, id)
           \/ LocalUndoMove(g)
           \/ \E level \in Levels : LocalAiHint(g, level, 1)
           \/ LocalGetPgn(g)
           \/ LocalGetAnalysis(g))
       => /\ ~call'.ok
          /\ call'.error = "Game not found"
          /\ local'.games = local.games]_vars

C22_CreatedIdIsFresh ==
  [][\A shape \in StartShapes :
       LocalCreateGame(shape)
       => /\ call'.out.id = local.nextLocalId
          /\ local'.nextLocalId > local.nextLocalId
          /\ call'.out.id \notin DOMAIN local.games]_vars


\* ---------------------------------------------------------------------------
\* Properties of RemoteProvider's requests (specification SpecRequest)

\* C16: a response whose status is not 2xx makes the method reject with an
\* ApiError that carries the status of the response, whatever its content
\* type and body.
C16_NonOkGivesApiError ==
  [][\A res \in FetchOutcomes :
         (/\ res.kind = "response" /\ ~ResOk(res)
          /\ \/ RemoteCreateGame(res)
             \/ RemoteMakeMove("g1", res)
             \/ RemoteGetAnalysis("g1", 0, res)
             \/ Request("undoMove", "POST",
                        Url(<<"/games/", "g1", "/undo">>), res))
         => /\ ~call'.ok
            /\ call'.error = "ApiError"
            /\ call'.api.status = res.status]_vars


\* ---------------------------------------------------------------------------
\* Properties of the requests RemoteProvider sends (specification SpecUrl)

\* The HTTP contract's table: the method of an action, and its resource
\* path for game id, with the optional query of the two actions that have
\* one.
TableMethod(op) ==
  CASE op \in {"getGame", "getLegalMoves", "getPgn", "getAnalysis"} -> "GET"
    [] op = "deleteGame" -> "DELETE"
    [] OTHER -> "POST"
TablePaths(op, id) ==
  CASE op = "createGame" -> {<<"/games">>}
    [] op \in {"getGame", "deleteGame"} -> {<<"/games/", id>>}
    [] op = "makeMove" -> {<<"/games/", id, "/moves">>}
    [] op = "undoMove" -> {<<"/games/", id, "/undo">>}
    [] op = "getLegalMoves" ->
         {<<"/games/", id, "/legal-moves">>,
          <<"/games/", id, "/legal-moves", "?from=", "e2">>}
    [] op = "aiMove" -> {<<"/games/", id, "/ai-move">>}
    [] op = "aiHint" -> {<<"/games/", id, "/ai-hint">>}
    [] op = "loadFen" -> {<<"/games/", id, "/fen">>}
    [] op = "getPgn" -> {<<"/games/", id, "/pgn">>}
    [] op = "getAnalysis" ->
         {<<"/games/", id, "/analysis">>,
          <<"/games/", id, "/analysis", "?depth=", "2">>}
    [] OTHER -> {}

\* C24: a contract call of a RemoteProvider sends exactly one request (none
\* for dispose and for an undoMove the capabilities rule out), with the
\* method and resource path of the contract's table, to the URL made of the
\* base URL without its trailing slashes, the adapter's prefix (/api for
\* rust and go, /api/v1 for js) and the resource path.
C24_OneRequestToTableUrl ==
  (call.target = "remote" /\ call.op # "constructor")
  => IF \/ call.op = "dispose"
        \/ call.op = "undoMove" /\ remote.backendId = "go"
       THEN /\ remote.fetchCount = call.fetchBefore
            /\ call.sent = NoRequest
     ELSE /\ remote.fetchCount = call.fetchBefore + 1
          /\ call.sent.method = TableMethod(call.op)
          /\ \E n \in 0..Len(remote.given) : \E id \in GameIds :
               \E path \in TablePaths(call.op, id) :
                 /\ n = 0 \/ remote.given[n] # "/"
                 /\ \A i \in (n + 1)..Len(remote.given) :
                      remote.given[i] = "/"
                 /\ call.sent.url =
                      SubSeq(remote.given, 1, n)
                        \o <<IF remote.backendId = "js" THEN "/api/v1"
                             ELSE "/api">>
                        \o path

\* C24 happens: a provider for js built with a base URL ending in two
\* slashes asked for the legal moves from e2 in game g2 with one GET.
C24_Witness ==
  /\ call.target = "remote" /\ call.op = "getLegalMoves"
  /\ remote.backendId = "js"
  /\ remote.given = <<"http://host", "/", "/">>
  /\ remote.fetchCount = call.fetchBefore + 1
  /\ call.sent = [method |-> "GET",
                  url |-> <<"http://host", "/api/v1", "/games/", "g2",
                            "/legal-moves", "?from=", "e2">>]


\* ---------------------------------------------------------------------------
\* Properties of the persisted selection (specification SpecPersist)

\* Selector s is what a start over storage and env has to give: the
\* persisted backend before the environment's before 'local', and for each
\* backend the persisted URL before the environment's.
StartedFrom(s, storage, env) ==
  /\ s.backendId =
       IF storage.rc_backend.kind = "string" THEN storage.rc_backend.str
       ELSE IF env.backend \in BackendIds THEN env.backend
       ELSE "local"
  /\ \A id \in RemoteIds :
       s.urlOverrides[id] =
         IF \E u \in Urls : <<id, u>> \in storage.rc_backendUrls.entries
           THEN CHOOSE u \in Urls :
                  <<id, u>> \in storage.rc_backendUrls.entries
         ELSE env.urls[id]

\* C25: the selection is durable.  The first start takes the backend and
\* the URLs from storage before the environment, and the backend of the
\* environment before 'local'; a restart after any switchBackend and
\* setBackendUrl calls starts with the same active backend and the same
\* URL overrides, again with what was persisted before the environment.
C25_SelectionIsDurable ==
  /\ StartedFrom(sel, sel.boot, sel.env)
  /\ [][Restart
          => /\ sel'.backendId = sel.backendId
             /\ sel'.urlOverrides = sel.urlOverrides
             /\ StartedFrom(sel', sel.storage, sel.env)]_vars

\* C25 happens: the selector was restarted over a storage holding a switch
\* to go and a URL set for rust, in a build whose environment names rust
\* and a URL for it, and came up on go with the rust URL that was set.
C25_Witness ==
  /\ sel.env.backend = "rust" /\ sel.env.urls["rust"] = EnvUrl
  /\ sel.boot.rc_backend = StringifyId("go")
  /\ <<"rust", "http://other:9000">> \in sel.boot.rc_backendUrls.entries
  /\ sel.backendId = "go"
  /\ sel.urlOverrides["rust"] = "http://other:9000"
  /\ sel.urlOverrides["go"] = NoUrl
  /\ sel.inst = 1


\* ---------------------------------------------------------------------------
\* Properties of the game hook (specifications SpecGame and SpecGameFair)

\* It is the AI's turn in a game with the AI opponent on, and the engine has
\* a legal move (the hook has no time control set: there is no timeout).
AIToMove ==
  /\ app.aiEnabled
  /\ GetTurn(engine) # app.playerColor
  /\ Len(GetLegalMoves(engine)) > 0

C19_FailedMoveIsKeptAndReported ==
  [][/\ (UserMove /\ IsRemote(Now) /\ app.remoteGameId # NoGameId)
          => /\ app'.len = app.len + 1
             /\ \E r \in app'.pending \ app.pending : r.op = "makeMove"
     /\ \A r \in app.pending :
          (r.op = "makeMove" /\ ResponseArrives(r, FALSE))
          => /\ app'.len = app.len
             /\ app'.turn0 = app.turn0
             /\ app'.fen = app.fen
             /\ app'.error = "failed"]_vars

\* C19 happens: the remote game was created, one move was played and sent,
\* and the provider's answer to it was a failure; the move is still there.
C19_Witness ==
  /\ sel.backendId # "local"
  /\ app.remoteGameId # NoGameId
  /\ app.nreq = 2 /\ app.pending = {}
  /\ app.len = 1
  /\ app.error = "failed"

C31_CapturesFirstStable ==
  (aiOut.called /\ DepthForLevel(aiOut.level) > 0) =>
    LET legal == GetLegalMoves(aiOut.pre)
        ordered == aiOut.ordered
    IN /\ Len(ordered) = Len(legal)
       /\ {ordered[i].id : i \in DOMAIN ordered} = DOMAIN legal
       /\ \A i \in DOMAIN ordered : ordered[i] = legal[ordered[i].id]
       /\ \A i, j \in DOMAIN ordered :
            i < j =>
              /\ CaptureValue(ordered[i]) >= CaptureValue(ordered[j])
              /\ CaptureValue(ordered[i]) = CaptureValue(ordered[j])
                   => ordered[i].id < ordered[j].id
       /\ \A i \in DOMAIN ordered :
            CaptureValue(ordered[i])
              = CASE ordered[i].captured.type = "queen" -> 900
                  [] ordered[i].captured.type = "rook" -> 500
                  [] ordered[i].captured.type \in {"bishop", "knight"} -> 300
                  [] ordered[i].captured.type = "pawn" -> 100
                  [] OTHER -> 0
       /\ GetLegalMoves(engine) = legal

\* C31 happens: a search over a position whose nine legal moves capture a
\* queen, a rook, a knight before a bishop, a second knight, two pawns and
\* nothing (twice), listed in another order than the search takes them.
C31_Witness ==
  /\ aiOut.called
  /\ aiOut.level = "medium"
  /\ aiOut.pre.pos.shape = OrderShape
  /\ [i \in DOMAIN aiOut.ordered |-> aiOut.ordered[i].id]
       = <<5, 7, 3, 6, 9, 2, 8, 1, 4>>

\* ---------------------------------------------------------------------------
\* More properties of LocalProvider (specification SpecProvider)

\* C32: an aiMove that resolves has played exactly one move on the stored
\* engine: the game it answers with is the stored game, has one move more
\* than before and the other side to move, and the move it answers with is
\* the last of that game's moveHistory; an aiMove that rejects leaves the
\* game store as it was.
C32_AiMovePlaysOneMove ==
  [][(call'.target = "local" /\ call'.op = "aiMove") =>
       IF call'.ok
         THEN \E g \in DOMAIN local.games :
                /\ call'.out.id = g
                /\ \E id \in DOMAIN GetLegalMoves(local.games[g]) :
                     /\ MakeMove(local.games[g], id).ok
                     /\ local' = [local EXCEPT
                                    !.games[g] = MakeMove(local.games[g], id).e]
                /\ call'.out = LocalGameState(g, local'.games[g])
                /\ call'.out.moveCount = Len(GetHistory(local.games[g])) + 1
                /\ call'.out.turn = Opposite(GetTurn(local.games[g]))
                /\ call'.move = call'.out.moveHistory[call'.out.moveCount]
       ELSE local' = local]_vars

\* C32 happens: a searching tier answered a capture as the second move of a
\* game, which is then the last of the two moves of the stored game.
C32_Witness ==
  /\ call.target = "local" /\ call.op = "aiMove" /\ call.ok
  /\ call.out.moveCount = 2
  /\ call.move.captured = Piece("queen", "white")
  /\ \E g \in DOMAIN local.games :
       /\ GetHistory(local.games[g])[2] = call.move
       /\ Len(GetHistory(call.gamesBefore[g])) = 1

\* C32 happens too when aiMove rejects: the random tier picked a move the
\* engine then refused, on a game that has a move it accepts.
C32_WitnessRejected ==
  /\ call.target = "local" /\ call.op = "aiMove" /\ ~call.ok
  /\ call.error = "AI move was illegal"
  /\ \E g \in DOMAIN local.games : local.games[g] = call.gamesBefore[g]

\* ---------------------------------------------------------------------------
\* More properties of the session (specification SpecSession)

\* C33: a think commits its move only when the AI is enabled and the side
\* to move is not the player's; the move passes the turn to the player and
\* leaves no think behind; and at no time is more than one think waiting
\* for its delay with its cancelled flag unset.  So an AI turn sees at most
\* one AI move, whatever the user does and whenever the timers run out.
C33_OneAIMovePerAITurn ==
  /\ [](app.liveThinks <= 1)
  /\ [](app.liveThinks = IF app.think = "live" THEN 1 ELSE 0)
  /\ [][(ThinkFires /\ app'.len = app.len + 1)
          => /\ app.aiEnabled
             /\ Turn(app) # app.playerColor
             /\ Turn(app') = app.playerColor
             /\ app'.think = "none"
             /\ app'.liveThinks = 0]_vars

\* C33 happens: the AI has answered the user's first move (the second move
\* of the game is its own) on a provider that was replaced since the
\* session began, the turn is the user's and no think is waiting.
C33_Witness ==
  /\ app.aiEnabled
  /\ app.playerColor = "white"
  /\ app.turn0 = "white"
  /\ app.len = 2
  /\ Turn(app) = "white"
  /\ app.think = "none"
  /\ app.liveThinks = 0
  /\ sel.inst > 1

\* ---------------------------------------------------------------------------
\* More properties of the backend selector (specification SpecSelector)

\* C34: in every state of the selector there is a connection error message
\* exactly when the status is Disconnected.  A health check that fails (the
\* fetch rejects, times out or answers a status that is not ok) sets
\* Disconnected and a message; a check that succeeds, a check for the local
\* backend and a switch of backend clear the message.
C34_ErrorIffDisconnected ==
  /\ []((sel.connectionError # "null")
          <=> (ConnectionStatus(sel) = "Disconnected"))
  /\ [][\A i \in 1..MaxHealth :
          /\ \A outcome \in HealthOutcomes \ {"ok"} :
               HealthCompletes(i, outcome)
                 => /\ ConnectionStatus(sel') = "Disconnected"
                    /\ sel'.connectionError # "null"
          /\ HealthCompletes(i, "ok")
               => /\ ConnectionStatus(sel') = "Connected"
                  /\ sel'.connectionError = "null"]_vars
  /\ [][(/\ sel.backendId \in {"local", "js"}
         /\ CheckConnection)
          => /\ ConnectionStatus(sel') = "Connected"
             /\ sel'.connectionError = "null"]_vars
  /\ [][\A id \in BackendIds : \A url \in Urls \cup {NoUrl} :
          SwitchBackend(id, url) => sel'.connectionError = "null"]_vars

\* C34 happens: the health check of the active remote backend timed out,
\* no other check is in flight, and the status is Disconnected with the
\* message of the failure.
C34_Witness ==
  /\ sel.backendId = "rust"
  /\ ConnectionStatus(sel) = "Disconnected"
  /\ sel.connectionError = "The operation timed out"
  /\ ~sel.checking
  /\ sel.health = <<>>

\* ---------------------------------------------------------------------------
\* More properties of the adapters (specification SpecNorm)

\* C35: a game state normalised by the rust adapter or by the local
\* provider whose status is checkmate has as its result the win of the
\* colour that is not to move ('0-1' when turn is white, '1-0' when it is
\* black), whether the backend wrote the player as 'white', 'black', 'w'
\* or 'b' or left it out.
C35_MatedSideLoses ==
  (/\ norm.adapter \in {"rust", "local"}
   /\ norm.out.status = "checkmate"
   /\ norm.adapter = "rust"
        => norm.raw.player \in {"white", "black", "w", "b", "undefined"})
  => norm.out.result = IF norm.out.turn = "white" THEN "0-1" ELSE "1-0"

\* ---------------------------------------------------------------------------
\* The leaf evaluation (specification SpecAI)

\* The pieces of one type and colour on a board.
CountPieces(board, t, c) ==
  Cardinality({i \in DOMAIN board : board[i] = Piece(t, c)})

\* The material of a colour: pawn 100, knight 300, bishop 300, rook 500,
\* queen 900, king 10000.
Material(board, c) ==
  100 * CountPieces(board, "pawn", c)
    + 300 * CountPieces(board, "knight", c)
    + 300 * CountPieces(board, "bishop", c)
    + 500 * CountPieces(board, "rook", c)
    + 900 * CountPieces(board, "queen", c)
    + 10000 * CountPieces(board, "king", c)

\* The position of the engine and the positions one legal move below it.
PositionsAtHand ==
  {engine}
    \cup {MakeMove(engine, id).e : id \in DOMAIN GetLegalMoves(engine)}

\* C36: the evaluation of a position for a colour is plus infinity when the
\* game is over and that colour has won, minus infinity when it is over and
\* the other colour has won, and else, stalemate and every draw included,
\* the material of the colour minus the material of the other; so the
\* evaluation for white is the negation of the evaluation for black.
C36_EvaluateIsMaterialOrWin ==
  \A e \in PositionsAtHand : \A c \in Color :
    /\ Evaluate(e, c)
         = IF IsGameOver(e) /\ GetStatus(e) = "checkmate"
             THEN (IF GetTurn(e) # c THEN Infinity ELSE 0 - Infinity)
           ELSE Material(GetBoard(e), c) - Material(GetBoard(e), Opposite(c))
    /\ Evaluate(e, c) = 0 - Evaluate(e, Opposite(c))

\* C36 happens: a search one ply deep scored the nine leaves below a
\* position with every kind of piece on the board, each a draw with the
\* material of one capture more for the side that searched.
C36_Witness ==
  /\ aiOut.called
  /\ aiOut.level = "easy"
  /\ GetBoard(engine) = FullBoard
  /\ [i \in DOMAIN aiOut.scores |-> aiOut.scores[i].score]
       = <<900, 500, 300, 300, 300, 100, 100, 0, 0>>
  /\ \E e \in PositionsAtHand :
       /\ GetStatus(e) = "stalemate"
       /\ Evaluate(e, "black") = 0 - 500

=============================================================================
